---------------------------- MODULE Spec2Model ----------------------------
(***************************************************************************)
(* The statistics / insight aggregation engine of The MentalPitch          *)
(* (src/api/stats.ts): getDateRangeForPeriod, calculateStreak,             *)
(* calculateMoodTrend, getTimeOfDay, generateInsights and getStats, over   *)
(* the journal_entries rows the entry store returns.                       *)
(*                                                                         *)
(* Time.  A JavaScript Date is a UTC time value; the model counts it in    *)
(* whole hours since 1970-01-01T00:00Z (the code never looks below the     *)
(* hour: it slices the ISO string to its date and moves dates by whole     *)
(* days).  A calendar date "YYYY-MM-DD" is its day number since 1970-01-01 *)
(* (the ISO form is fixed-width, so string order, used by sort() and by    *)
(* gte/lte, is day-number order).  Local-time methods (getDate, setDate,   *)
(* getFullYear, getMonth, new Date(y, m, d)) go through the device's time  *)
(* zone, which has a standard offset and, possibly, a daylight-saving      *)
(* period.                                                                 *)
(*                                                                         *)
(* Numbers.  An average is an exact fraction [num, den]; den = 0 is null.  *)
(* calculateMoodTrend, whose threshold test depends on rounding, computes  *)
(* on the doubles the fractions stand for.                                 *)
(***************************************************************************)
EXTENDS Integers, Sequences, FiniteSets, Bags, TLC

VARIABLES
    store,        \* journal_entries rows of the signed-in user, in query order
    now,          \* the current instant (hours since 1970-01-01T00:00Z)
    zone,         \* the device's time zone
    ticks,        \* how many times the clock has advanced
    report,       \* what the last getStats call returned, while the store and
                  \* the UTC day are those of the call (NoReport otherwise)
    lastRange,    \* what the last getDateRangeForPeriod call returned
    insightsIn,   \* the arguments of the last generateInsights call
    insights,     \* what it returned
    calls,        \* the getStats calls StatsScreen has started, oldest first
    screen,       \* StatsScreen's state: period, loading, stats, error
    queue,        \* the notifications the OS holds scheduled
    sched,        \* the scheduleNotifications calls in flight, per caller
    account,      \* the session, the auth user and the preferences row
    streakIn,     \* the argument of the last calculateStreak call
    streak,       \* what it returned
    trendIn,      \* the argument of the last calculateMoodTrend call
    trend,        \* what it returned
    timeIn,       \* the argument of the last getTimeOfDay call
    bucket,       \* what it returned
    profileIn,    \* the rows and the catalog getProfileStatsSummary fetched
    profile       \* what it returned

statsVars == <<store, now, zone, ticks, report, lastRange, insightsIn, insights>>
asyncVars == <<calls, screen, queue, sched, account>>
streakVars == <<streakIn, streak>>
trendVars == <<trendIn, trend>>
timeVars == <<timeIn, bucket>>
profileVars == <<profileIn, profile>>
pureVars == <<streakVars, trendVars, timeVars, profileVars>>
vars == <<store, now, zone, ticks, report, lastRange, insightsIn, insights,
          calls, screen, queue, sched, account, streakIn, streak,
          trendIn, trend, timeIn, bucket, profileIn, profile>>

(***************************************************************************)
(* Bounds of the model.                                                    *)
(***************************************************************************)
MaxEntries == 3       \* rows in the entry store
MaxTicks == 2         \* clock advances per behaviour
MaxWorkoutStats == 2  \* length of a workoutStats argument drawn directly

Periods == {"week", "month", "year"}

Range(s) == {s[i] : i \in DOMAIN s}

RECURSIVE SumSeq(_)
SumSeq(s) == IF s = << >> THEN 0 ELSE Head(s) + SumSeq(Tail(s))

(***************************************************************************)
(* ECMAScript Date arithmetic, in whole days and hours.                    *)
(***************************************************************************)
IsLeapYear(y) == (y % 4 = 0 /\ y % 100 # 0) \/ y % 400 = 0

DaysInMonth(y, m) ==
    CASE m \in {0, 2, 4, 6, 7, 9, 11} -> 31
      [] m \in {3, 5, 8, 10} -> 30
      [] OTHER -> IF IsLeapYear(y) THEN 29 ELSE 28

\* DayFromYear of ECMA-262: the day number of January 1st of year y.
DayFromYear(y) ==
    365 * (y - 1970) + ((y - 1969) \div 4) - ((y - 1901) \div 100)
        + ((y - 1601) \div 400)

RECURSIVE DaysBeforeMonth(_, _)
DaysBeforeMonth(y, m) ==
    IF m = 0 THEN 0 ELSE DaysBeforeMonth(y, m - 1) + DaysInMonth(y, m - 1)

\* MakeDay(year, month, date): month is 0-based, date may be <= 0 or past the
\* month's end and then runs over into the neighbouring months.
MakeDay(y, m, d) == DayFromYear(y) + DaysBeforeMonth(y, m) + (d - 1)

YearFromDay(n) ==
    CHOOSE y \in (1970 + (n \div 366))..(1970 + (n \div 365) + 1) :
        DayFromYear(y) <= n /\ n < DayFromYear(y + 1)

\* The month m or a later one in which day-of-year offset k (counted from the
\* 1st of month m) falls, and the day of that month.
RECURSIVE MonthAndDate(_, _, _)
MonthAndDate(y, m, k) ==
    IF k < DaysInMonth(y, m) THEN [month |-> m, date |-> k + 1]
    ELSE MonthAndDate(y, m + 1, k - DaysInMonth(y, m))

CivilFromDay(n) ==
    LET y == YearFromDay(n)
        md == MonthAndDate(y, 0, n - DayFromYear(y))
    IN  [year |-> y, month |-> md.month, date |-> md.date]

\* Date.UTC(y, m, d, h), in hours.
UTCInstant(y, m, d, h) == MakeDay(y, m, d) * 24 + h

\* A zone: standard offset std (hours east of UTC) and a daylight-saving period
\* [dstFrom, dstTo) of UTC instants in which the offset is std + 1.
InDST(z, t) == z.dstFrom <= t /\ t < z.dstTo

Offset(z, t) == z.std + (IF InDST(z, t) THEN 1 ELSE 0)

\* LocalTime(t) of ECMA-262.
LocalTime(z, t) == t + Offset(z, t)

\* UTC(t) of ECMA-262: a local time that occurs twice (clocks set back) or
\* never (clocks set forward) is read with the offset before the transition.
LocalToUTC(z, tl) ==
    IF InDST(z, tl - z.std - 1) THEN tl - z.std - 1 ELSE tl - z.std

\* t.toISOString().slice(0, 10): the UTC calendar date.
ToISODate(t) == t \div 24

\* new Date("YYYY-MM-DD"): UTC midnight of that date.
ParseISODate(d) == d * 24

GetFullYear(z, t) == CivilFromDay(LocalTime(z, t) \div 24).year
GetMonth(z, t) == CivilFromDay(LocalTime(z, t) \div 24).month
GetDate(z, t) == CivilFromDay(LocalTime(z, t) \div 24).date

\* t.setDate(d): day d of t's local month, at t's local time of day.
SetDate(z, t, d) ==
    LET tl == LocalTime(z, t)
        c == CivilFromDay(tl \div 24)
    IN  LocalToUTC(z, MakeDay(c.year, c.month, d) * 24 + (tl % 24))

\* new Date(y, m, d): local midnight.
NewLocalDate(z, y, m, d) == LocalToUTC(z, MakeDay(y, m, d) * 24)

(***************************************************************************)
(* getDateRangeForPeriod                                                   *)
(***************************************************************************)
WeekStart(z, today) == SetDate(z, today, GetDate(z, today) - 6)

MonthStart(z, today) == NewLocalDate(z, GetFullYear(z, today), GetMonth(z, today), 1)

YearStart(z, today) == NewLocalDate(z, GetFullYear(z, today), 0, 1)

getDateRangeForPeriod(period, z, today) ==
    LET startDate == CASE period = "week" -> WeekStart(z, today)
                       [] period = "month" -> MonthStart(z, today)
                       [] period = "year" -> YearStart(z, today)
    IN  [startDate |-> ToISODate(startDate), endDate |-> ToISODate(today)]

(***************************************************************************)
(* Journal entries.  A row carries entry_date (a day number), entry_time   *)
(* (NoTime, or <<hh, mm>> of its "HH:MM:SS+TZ" text), mood_score           *)
(* (NullScore or 1..10) and workout_type_id (NoId or an id).               *)
(***************************************************************************)
NullScore == -1
NoTime == << >>
NoId == ""

Max(a, b) == IF a >= b THEN a ELSE b

\* Array.from(set).sort().reverse() over ISO dates: descending.
RECURSIVE SortDesc(_)
SortDesc(S) ==
    IF S = {} THEN << >>
    ELSE LET m == CHOOSE x \in S : \A y \in S : y <= x
         IN  <<m>> \o SortDesc(S \ {m})

\* Object.keys(...).sort() over ISO dates: ascending.
RECURSIVE SortAsc(_)
SortAsc(S) ==
    IF S = {} THEN << >>
    ELSE LET m == CHOOSE x \in S : \A y \in S : x <= y
         IN  <<m>> \o SortAsc(S \ {m})

(***************************************************************************)
(* calculateStreak                                                         *)
(***************************************************************************)
\* The day before checkDate: checkDate.setDate(checkDate.getDate() - 1).
PreviousDay(z, checkDate) == SetDate(z, checkDate, GetDate(z, checkDate) - 1)

\* The while (true) loop from today backwards.
RECURSIVE CurrentStreakLoop(_, _, _)
CurrentStreakLoop(z, datesWithEntries, checkDate) ==
    IF ToISODate(checkDate) \in datesWithEntries
    THEN 1 + CurrentStreakLoop(z, datesWithEntries, PreviousDay(z, checkDate))
    ELSE 0

\* Mutant: a gap restarts the count without keeping the run before it.
StreakStepForgets(daysDiff, tempStreak, longestStreak) ==
    IF daysDiff = 1
    THEN [tempStreak |-> tempStreak + 1, longestStreak |-> longestStreak]
    ELSE [tempStreak |-> 1, longestStreak |-> longestStreak]

\* What the walk over sortedDates does on a gap of daysDiff days.
StreakStep(daysDiff, tempStreak, longestStreak) ==
    IF daysDiff = 1
    THEN [tempStreak |-> tempStreak + 1, longestStreak |-> longestStreak]
    ELSE [tempStreak |-> 1, longestStreak |-> Max(longestStreak, tempStreak)]

\* The for loop over sortedDates; prevDate is << >> (null) or <<instant>>.
RECURSIVE LongestStreakLoop(_, _, _, _)
LongestStreakLoop(sortedDates, prevDate, tempStreak, longestStreak) ==
    IF sortedDates = << >> THEN Max(longestStreak, tempStreak)
    ELSE LET currentDate == ParseISODate(Head(sortedDates))
         IN  IF prevDate = << >>
             THEN LongestStreakLoop(Tail(sortedDates), <<currentDate>>, 1, longestStreak)
             ELSE LET s == StreakStep((prevDate[1] - currentDate) \div 24,
                                      tempStreak, longestStreak)
                  IN  LongestStreakLoop(Tail(sortedDates), <<currentDate>>,
                                        s.tempStreak, s.longestStreak)

\* Mutant: today is the device's local calendar date.
TodayLocal(z, t) == LocalTime(z, t) \div 24

\* new Date().toISOString().slice(0, 10)
TodayOf(z, t) == ToISODate(t)

calculateStreak(entries, z, t) ==
    IF Len(entries) = 0
    THEN [currentStreak |-> 0, longestStreak |-> 0, totalDaysWithEntries |-> 0]
    ELSE LET datesWithEntries == {entries[i].entry_date : i \in DOMAIN entries}
             sortedDates == SortDesc(datesWithEntries)
             today == TodayOf(z, t)
         IN  [currentStreak |->
                  CurrentStreakLoop(z, datesWithEntries, ParseISODate(today)),
              longestStreak |-> LongestStreakLoop(sortedDates, << >>, 0, 0),
              totalDaysWithEntries |-> Cardinality(datesWithEntries)]

(***************************************************************************)
(* Fractions: an average or a percentage is [num, den], den = 0 is null.   *)
(***************************************************************************)
NullAvg == [num |-> 0, den |-> 0]

\* Mutant: an average over no scores is 0 instead of null.
AvgOrZero(sum, count) ==
    IF count > 0 THEN [num |-> sum, den |-> count] ELSE [num |-> 0, den |-> 1]

Avg(sum, count) == IF count > 0 THEN [num |-> sum, den |-> count] ELSE NullAvg

\* JavaScript truthiness of a number | null: neither null nor 0.
Truthy(a) == a.den # 0 /\ a.num # 0

\* a >= k, a > b for non-null fractions (denominators are positive).
AtLeast(a, k) == a.num >= k * a.den
Greater(a, b) == a.num * b.den > b.num * a.den

FracAdd(a, b) == [num |-> a.num * b.den + b.num * a.den, den |-> a.den * b.den]

\* a.toFixed(1): the nearest tenth, the larger one on a tie.
ToFixed1(a) ==
    LET tenths == (20 * a.num + a.den) \div (2 * a.den)
    IN  ToString(tenths \div 10) \o "." \o ToString(tenths % 10)

(***************************************************************************)
(* Number arithmetic of calculateMoodTrend.  A JavaScript number is an     *)
(* IEEE-754 double: every /, + and - rounds its exact result to 53         *)
(* significant bits, ties to even.  A non-negative double is held here as  *)
(* fixed-point bits, most significant first, 8 integer bits and 60         *)
(* fraction bits; every double in [2^-7, 2^8) is exactly such a value, and *)
(* the averages, sums and differences of mood scores stay in that range    *)
(* or are 0.                                                               *)
(***************************************************************************)
DoubleWidth == 8 + 60

\* The bit sequence a function on 1..DoubleWidth gives, as a tuple.
Bits(f) == SubSeq(f, 1, DoubleWidth)

DoubleZero == Bits([i \in 1..DoubleWidth |-> 0])

\* The integer n (0 <= n < 256) as a double.
DoubleOfInt(n) ==
    Bits([i \in 1..DoubleWidth |-> IF i <= 8 THEN (n \div (2 ^ (8 - i))) % 2 ELSE 0])

\* a + b and a - b (a >= b) on the bits, exact: the carry into a position
\* is generated below it and propagated up to it.
BitsAdd(a, b) ==
    LET carry(i) == \E j \in (i + 1)..DoubleWidth :
                        /\ a[j] + b[j] = 2
                        /\ \A k \in (i + 1)..(j - 1) : a[k] + b[k] = 1
    IN  Bits([i \in 1..DoubleWidth |->
                 (a[i] + b[i] + IF carry(i) THEN 1 ELSE 0) % 2])

BitsSubtract(a, b) ==
    LET borrow(i) == \E j \in (i + 1)..DoubleWidth :
                         /\ a[j] < b[j]
                         /\ \A k \in (i + 1)..(j - 1) : a[k] = b[k]
    IN  Bits([i \in 1..DoubleWidth |->
                 (a[i] - b[i] - (IF borrow(i) THEN 1 ELSE 0) + 2) % 2])

\* a < b.
DoubleLess(a, b) ==
    \E i \in 1..DoubleWidth :
        /\ a[i] < b[i]
        /\ \A j \in 1..(i - 1) : a[j] = b[j]

\* Long division of the bits by a small positive integer, four bits a step:
\* quotient bits and the remainder.
RECURSIVE BitsDivide(_, _, _)
BitsDivide(bits, k, r) ==
    IF bits = << >> THEN [q |-> << >>, r |-> r]
    ELSE LET t == 16 * r + 8 * bits[1] + 4 * bits[2] + 2 * bits[3] + bits[4]
             c == t \div k
             d == BitsDivide(SubSeq(bits, 5, Len(bits)), k, t % k)
         IN  [q |-> <<c \div 8, (c \div 4) % 2, (c \div 2) % 2, c % 2>> \o d.q,
              r |-> d.r]

\* Round to nearest, ties to even, at 53 significant bits; inexact says a
\* non-zero part of the exact result lies below the last fraction bit.
RoundToDouble(bits, inexact) ==
    IF bits = DoubleZero THEN bits
    ELSE LET first == CHOOSE i \in 1..DoubleWidth :
                          bits[i] = 1 /\ \A j \in 1..(i - 1) : bits[j] = 0
             last == first + 52
         IN  IF last >= DoubleWidth THEN bits
             ELSE LET rest == inexact \/ \E j \in (last + 2)..DoubleWidth : bits[j] = 1
                      up == bits[last + 1] = 1 /\ (rest \/ bits[last] = 1)
                      kept == Bits([i \in 1..DoubleWidth |->
                                       IF i <= last THEN bits[i] ELSE 0])
                      ulp == Bits([i \in 1..DoubleWidth |->
                                      IF i = last THEN 1 ELSE 0])
                  IN  IF up THEN BitsAdd(kept, ulp) ELSE kept

DoubleAdd(a, b) == RoundToDouble(BitsAdd(a, b), FALSE)

\* |a - b|.
DoubleAbsDiff(a, b) ==
    IF DoubleLess(a, b) THEN RoundToDouble(BitsSubtract(b, a), FALSE)
    ELSE RoundToDouble(BitsSubtract(a, b), FALSE)

DoubleDivide(a, k) ==
    LET d == BitsDivide(a, k, 0)
    IN  RoundToDouble(d.q, d.r # 0)

\* The number an average holds: the quotient sum / count as a double.
ToDouble(avg) == DoubleDivide(DoubleOfInt(avg.num), avg.den)

\* The literal 0.3.
TrendThreshold == DoubleDivide(DoubleOfInt(3), 10)

(***************************************************************************)
(* calculateMoodTrend                                                      *)
(***************************************************************************)
\* reduce((sum, t) => sum + (t.averageMood ?? 0), 0), left to right.
RECURSIVE SumAverages(_, _)
SumAverages(sum, points) ==
    IF points = << >> THEN sum
    ELSE SumAverages(DoubleAdd(sum, ToDouble(Head(points).averageMood)),
                     Tail(points))

\* reduce(sum) / length over the points of one half.
HalfAverage(points) ==
    DoubleDivide(SumAverages(DoubleZero, points), Len(points))

\* The direction for diff = secondAvg - firstAvg: Math.abs(diff) < 0.3 is
\* stable.
TrendOfDiff(firstAvg, secondAvg) ==
    IF DoubleLess(DoubleAbsDiff(secondAvg, firstAvg), TrendThreshold) THEN "stable"
    ELSE IF DoubleLess(firstAvg, secondAvg) THEN "improving" ELSE "declining"

calculateMoodTrend(moodTrends) ==
    IF Len(moodTrends) < 2 THEN "stable"
    ELSE LET validTrends == SelectSeq(moodTrends, LAMBDA t : t.averageMood.den # 0)
         IN  IF Len(validTrends) < 2 THEN "stable"
             ELSE LET mid == Len(validTrends) \div 2
                      firstHalf == SubSeq(validTrends, 1, mid)
                      secondHalf == SubSeq(validTrends, mid + 1, Len(validTrends))
                  IN  TrendOfDiff(HalfAverage(firstHalf), HalfAverage(secondHalf))

(***************************************************************************)
(* getTimeOfDay                                                            *)
(***************************************************************************)
TimesOfDay == <<"morning", "afternoon", "evening", "night">>

\* An entry_time as text: a sequence of characters, or null.
NullText == <<"null">>
Digits == <<"0", "1", "2", "3", "4", "5", "6", "7", "8", "9">>
IsDigit(c) == \E d \in DOMAIN Digits : Digits[d] = c
DigitValue(c) == (CHOOSE d \in DOMAIN Digits : Digits[d] = c) - 1
Pad2(n) == <<Digits[(n \div 10) + 1], Digits[(n % 10) + 1]>>

\* What the column entry_time (time with time zone) returns for the text
\* "HH:MM:00" that normalizeTime produced: "HH:MM:00+00"; null stays null.
ColumnTime(time) ==
    IF time = NoTime THEN NullText
    ELSE Pad2(time[1]) \o <<":">> \o Pad2(time[2])
             \o <<":", "0", "0", "+", "0", "0">>

\* entryTime.match(/(\d{2}):(\d{2})/): the first place two digits, a colon
\* and two digits stand, as <<Number(match[1]), Number(match[2])>>; NoTime
\* for null, for the empty text and for a text without a match.
MatchTime(text) ==
    LET at == {i \in 1..(Len(text) - 4) :
                   /\ IsDigit(text[i]) /\ IsDigit(text[i + 1])
                   /\ text[i + 2] = ":"
                   /\ IsDigit(text[i + 3]) /\ IsDigit(text[i + 4])}
    IN  IF text = NullText \/ text = << >> \/ at = {} THEN NoTime
        ELSE LET i == CHOOSE j \in at : \A k \in at : j <= k
             IN  <<10 * DigitValue(text[i]) + DigitValue(text[i + 1]),
                   10 * DigitValue(text[i + 3]) + DigitValue(text[i + 4])>>

\* Mutant: noon counts as morning.
getTimeOfDayNoonMorning(entryTime) ==
    IF entryTime = NoTime THEN "afternoon"
    ELSE LET hour == entryTime[1]
         IN  IF hour >= 5 /\ hour <= 12 THEN "morning"
             ELSE IF hour > 12 /\ hour < 17 THEN "afternoon"
             ELSE IF hour >= 17 /\ hour < 21 THEN "evening"
             ELSE "night"

\* The classification of a matched time; NoTime is no text or no match.
getTimeOfDay(entryTime) ==
    IF entryTime = NoTime THEN "afternoon"
    ELSE LET hour == entryTime[1]
         IN  IF hour >= 5 /\ hour < 12 THEN "morning"
             ELSE IF hour >= 12 /\ hour < 17 THEN "afternoon"
             ELSE IF hour >= 17 /\ hour < 21 THEN "evening"
             ELSE "night"

(***************************************************************************)
(* generateInsights.  The messages are the code's strings without their    *)
(* leading emoji.                                                          *)
(***************************************************************************)
LongStreakMessage(n) == "Amazing! You're on a " \o ToString(n) \o "-day streak!"

\* Mutant: "days" whatever the count.
KeepItUpMessagePlural(n) ==
    "Keep it up! You've logged entries for " \o ToString(n) \o " days in a row."

KeepItUpMessage(n) ==
    "Keep it up! You've logged entries for " \o ToString(n) \o " day"
        \o (IF n > 1 THEN "s" ELSE "") \o " in a row."

ImprovingMessage == "Your mood has been improving over this period!"
DecliningMessage == "Consider trying different activities to boost your mood."

MoodBoosterMessage(name, avg) ==
    name \o " sessions are your mood booster (avg " \o ToFixed1(avg) \o "/10)!"

\* timeOfDay.charAt(0).toUpperCase() + timeOfDay.slice(1)
Capitalize(timeOfDay) ==
    CASE timeOfDay = "morning" -> "Morning"
      [] timeOfDay = "afternoon" -> "Afternoon"
      [] timeOfDay = "evening" -> "Evening"
      [] timeOfDay = "night" -> "Night"

BestTimeMessage(timeOfDay) ==
    "Your best mood scores come during " \o Capitalize(timeOfDay) \o " sessions."

ExcellentMessage == "You're maintaining excellent mood scores!"
DoingWellMessage == "You're doing well! Keep tracking to see patterns."
FallbackMessage == "Start logging entries to see your insights!"

StreakInsight(streakData) ==
    IF streakData.currentStreak > 0
    THEN IF streakData.currentStreak >= 7
         THEN <<LongStreakMessage(streakData.currentStreak)>>
         ELSE <<KeepItUpMessage(streakData.currentStreak)>>
    ELSE << >>

TrendInsight(moodTrend) ==
    IF moodTrend = "improving" THEN <<ImprovingMessage>>
    ELSE IF moodTrend = "declining" THEN <<DecliningMessage>>
    ELSE << >>

\* Mutant: the first element whose average reaches 7 is named, wherever it is.
WorkoutInsightAnyElement(workoutStats) ==
    LET good == {i \in DOMAIN workoutStats :
                    /\ Truthy(workoutStats[i].averageMood)
                    /\ AtLeast(workoutStats[i].averageMood, 7)}
    IN  IF good # {}
        THEN LET i == CHOOSE k \in good : \A j \in good : k <= j
             IN  <<MoodBoosterMessage(workoutStats[i].workoutTypeName,
                                      workoutStats[i].averageMood)>>
        ELSE << >>

WorkoutInsight(workoutStats) ==
    IF Len(workoutStats) > 0
    THEN LET topWorkout == workoutStats[1]
         IN  IF Truthy(topWorkout.averageMood) /\ AtLeast(topWorkout.averageMood, 7)
             THEN <<MoodBoosterMessage(topWorkout.workoutTypeName,
                                       topWorkout.averageMood)>>
             ELSE << >>
    ELSE << >>

\* Mutant: the first bucket with an average is kept, whatever comes later.
BetterTimeKeepsFirst(best, current) ==
    IF ~Truthy(current.averageMood) THEN best
    ELSE IF ~Truthy(best.averageMood) THEN current
    ELSE best

\* The callback of timePatterns.reduce.
BetterTime(best, current) ==
    IF ~Truthy(current.averageMood) THEN best
    ELSE IF ~Truthy(best.averageMood) THEN current
    ELSE IF Greater(current.averageMood, best.averageMood) THEN current ELSE best

\* reduce without an initial value: starts from the first element.
RECURSIVE ReduceBest(_, _)
ReduceBest(best, rest) ==
    IF rest = << >> THEN best
    ELSE ReduceBest(BetterTime(best, Head(rest)), Tail(rest))

\* Mutant: the best time is named from an average of 8 on.
TimeInsightAtEight(timePatterns) ==
    IF Len(timePatterns) > 0
    THEN LET bestTime == ReduceBest(Head(timePatterns), Tail(timePatterns))
         IN  IF Truthy(bestTime.averageMood) /\ AtLeast(bestTime.averageMood, 8)
             THEN <<BestTimeMessage(bestTime.timeOfDay)>>
             ELSE << >>
    ELSE << >>

TimeInsight(timePatterns) ==
    IF Len(timePatterns) > 0
    THEN LET bestTime == ReduceBest(Head(timePatterns), Tail(timePatterns))
         IN  IF Truthy(bestTime.averageMood) /\ AtLeast(bestTime.averageMood, 7)
             THEN <<BestTimeMessage(bestTime.timeOfDay)>>
             ELSE << >>
    ELSE << >>

AverageMoodInsight(averageMood) ==
    IF averageMood.den # 0
    THEN IF AtLeast(averageMood, 8) THEN <<ExcellentMessage>>
         ELSE IF AtLeast(averageMood, 6) THEN <<DoingWellMessage>>
         ELSE << >>
    ELSE << >>

\* Mutant: the fallback is never added.
OrFallbackNone(list) == list

\* insights.length > 0 ? insights : [fallback]
OrFallback(list) == IF Len(list) > 0 THEN list ELSE <<FallbackMessage>>

\* Mutant: the mood-trend rule runs before the streak rule.
generateInsightsTrendFirst(summary, workoutStats, timePatterns) ==
    OrFallback(TrendInsight(summary.moodTrend)
                   \o StreakInsight(summary.streakData)
                   \o WorkoutInsight(workoutStats)
                   \o TimeInsight(timePatterns)
                   \o AverageMoodInsight(summary.averageMood))

generateInsights(summary, workoutStats, timePatterns) ==
    OrFallback(StreakInsight(summary.streakData)
                   \o TrendInsight(summary.moodTrend)
                   \o WorkoutInsight(workoutStats)
                   \o TimeInsight(timePatterns)
                   \o AverageMoodInsight(summary.averageMood))

(***************************************************************************)
(* getStats: the aggregation over the fetched rows.                        *)
(***************************************************************************)
HasScore(e) == e.mood_score # NullScore

RECURSIVE MoodSum(_)
MoodSum(entries) ==
    IF entries = << >> THEN 0
    ELSE (IF HasScore(Head(entries)) THEN Head(entries).mood_score ELSE 0)
             + MoodSum(Tail(entries))

MoodCount(entries) == Len(SelectSeq(entries, HasScore))

\* data.moodCount > 0 ? data.moodSum / data.moodCount : null
AverageMoodOf(entries) == Avg(MoodSum(entries), MoodCount(entries))

\* Mutant: entryCount counts only the rows that carry a mood score.
MoodTrendPointScoredOnly(entries, date) ==
    LET onDate == SelectSeq(entries, LAMBDA e : e.entry_date = date /\ HasScore(e))
    IN  [date |-> date,
         averageMood |-> AverageMoodOf(onDate),
         entryCount |-> Len(onDate)]

\* One point of moodTrends.
MoodTrendPoint(entries, date) ==
    LET onDate == SelectSeq(entries, LAMBDA e : e.entry_date = date)
    IN  [date |-> date,
         averageMood |-> AverageMoodOf(onDate),
         entryCount |-> Len(onDate)]

\* Mutant: every date that has a row is a key, with or without a mood score.
MoodDatesAll(entries) == {entries[i].entry_date : i \in DOMAIN entries}

\* The keys of moodByDate: the dates that have a row with a mood score.
MoodDates(entries) ==
    {entries[i].entry_date : i \in {j \in DOMAIN entries : HasScore(entries[j])}}

MoodTrends(entries) ==
    LET dates == SortAsc(MoodDates(entries))
    IN  [i \in DOMAIN dates |-> MoodTrendPoint(entries, dates[i])]

\* if (entry.workout_type_id): neither null nor the empty string.
HasWorkoutType(e) == e.workout_type_id # NoId

\* The keys of workoutTypeCounts in insertion order: first encounter.
RECURSIVE FirstSeenIds(_, _)
FirstSeenIds(entries, seen) ==
    IF entries = << >> THEN seen
    ELSE LET e == Head(entries)
         IN  IF HasWorkoutType(e) /\ e.workout_type_id \notin Range(seen)
             THEN FirstSeenIds(Tail(entries), Append(seen, e.workout_type_id))
             ELSE FirstSeenIds(Tail(entries), seen)

\* workoutTypeMap.get(id) || "Unknown"
WorkoutTypeName(workoutTypes, id) ==
    LET named == {i \in DOMAIN workoutTypes : workoutTypes[i].id = id}
    IN  IF named # {} /\ workoutTypes[CHOOSE i \in named : \A j \in named : j <= i].name # ""
        THEN workoutTypes[CHOOSE i \in named : \A j \in named : j <= i].name
        ELSE "Unknown"

\* Mutant: the share is not scaled to a percentage.
PercentageNotScaled(count, total) ==
    IF total > 0 THEN [num |-> count, den |-> total] ELSE [num |-> 0, den |-> 1]

\* Mutant: the share is taken over the other entries of the window.
PercentageOverOthers(count, total) ==
    IF total > count THEN [num |-> count * 100, den |-> total - count]
    ELSE [num |-> 100, den |-> 1]

\* entries.length > 0 ? (data.count / entries.length) * 100 : 0
Percentage(count, total) ==
    IF total > 0 THEN [num |-> count * 100, den |-> total] ELSE [num |-> 0, den |-> 1]

WorkoutTypeStat(entries, workoutTypes, id) ==
    LET ofType == SelectSeq(entries, LAMBDA e : e.workout_type_id = id)
    IN  [workoutTypeId |-> id,
         workoutTypeName |-> WorkoutTypeName(workoutTypes, id),
         entryCount |-> Len(ofType),
         averageMood |-> AverageMoodOf(ofType),
         percentage |-> Percentage(Len(ofType), Len(entries))]

\* Mutant: the sort puts an element before the elements of equal count.
RECURSIVE InsertByCountTiesFirst(_, _)
InsertByCountTiesFirst(sorted, x) ==
    IF sorted = << >> THEN <<x>>
    ELSE IF Head(sorted).entryCount > x.entryCount
         THEN <<Head(sorted)>> \o InsertByCountTiesFirst(Tail(sorted), x)
         ELSE <<x>> \o sorted

\* Array.prototype.sort((a, b) => b.entryCount - a.entryCount): stable, so equal
\* counts keep their order.
RECURSIVE InsertByCount(_, _)
InsertByCount(sorted, x) ==
    IF sorted = << >> THEN <<x>>
    ELSE IF Head(sorted).entryCount >= x.entryCount
         THEN <<Head(sorted)>> \o InsertByCount(Tail(sorted), x)
         ELSE <<x>> \o sorted

RECURSIVE SortByCountDesc(_)
SortByCountDesc(stats) ==
    IF stats = << >> THEN << >>
    ELSE InsertByCount(SortByCountDesc(SubSeq(stats, 1, Len(stats) - 1)),
                       stats[Len(stats)])

WorkoutTypeDistribution(entries, workoutTypes) ==
    LET ids == FirstSeenIds(entries, << >>)
    IN  SortByCountDesc([i \in DOMAIN ids |->
                             WorkoutTypeStat(entries, workoutTypes, ids[i])])

\* Mutant: a bucket counts only its rows with a mood score.
TimePatternStatScoredOnly(entries, timeOfDay) ==
    LET inBucket == SelectSeq(entries,
                              LAMBDA e : getTimeOfDay(e.entry_time) = timeOfDay)
    IN  [timeOfDay |-> timeOfDay,
         averageMood |-> AverageMoodOf(inBucket),
         entryCount |-> MoodCount(inBucket)]

\* One element of timePatternStats.
TimePatternStat(entries, timeOfDay) ==
    LET inBucket == SelectSeq(entries,
                              LAMBDA e : getTimeOfDay(e.entry_time) = timeOfDay)
    IN  [timeOfDay |-> timeOfDay,
         averageMood |-> AverageMoodOf(inBucket),
         entryCount |-> Len(inBucket)]

\* Mutant: only the buckets that received a row are emitted.
TimePatternStatsNonEmpty(entries) ==
    LET used == SelectSeq(TimesOfDay,
                          LAMBDA tod : \E i \in DOMAIN entries :
                                          getTimeOfDay(entries[i].entry_time) = tod)
    IN  [i \in DOMAIN used |-> TimePatternStat(entries, used[i])]

\* Object.entries(timePatterns).map(...): the four keys in literal order.
TimePatternStats(entries) ==
    [i \in DOMAIN TimesOfDay |-> TimePatternStat(entries, TimesOfDay[i])]

\* Mutant: the streak is calculated over the window rows.
StreakEntriesWindow(entries, allEntries) == entries

\* The list the streak is calculated over: calculateStreak(allEntries).
StreakEntries(entries, allEntries) == allEntries

\* What getStats computes from the three fetched lists at instant t in zone z.
getStats(period, entries, allEntries, workoutTypes, z, t) ==
    LET moodTrends == MoodTrends(entries)
        workoutTypeDistribution == WorkoutTypeDistribution(entries, workoutTypes)
        timePatternStats == TimePatternStats(entries)
        summary ==
            [period |-> period,
             totalEntries |-> Len(entries),
             averageMood |-> AverageMoodOf(entries),
             moodTrend |-> calculateMoodTrend(moodTrends),
             mostActiveWorkoutType |->
                 IF Len(workoutTypeDistribution) > 0
                 THEN workoutTypeDistribution[1].workoutTypeName
                 ELSE "",
             streakData |-> calculateStreak(StreakEntries(entries, allEntries), z, t)]
    IN  [summary |-> summary,
         moodTrends |-> moodTrends,
         workoutTypeDistribution |-> workoutTypeDistribution,
         timePatterns |-> timePatternStats,
         insights |-> generateInsights(summary, workoutTypeDistribution,
                                       timePatternStats)]

(***************************************************************************)
(* The entry store and its two queries (src/api/journalEntries.ts).        *)
(***************************************************************************)
\* order("entry_date", desc) then order("entry_time", desc): a null time sorts
\* first in a descending order.
TimeKey(e) == IF e.entry_time = NoTime THEN 24 * 60
              ELSE e.entry_time[1] * 60 + e.entry_time[2]

\* a may come before b in a query result.
MayPrecede(a, b) ==
    \/ a.entry_date > b.entry_date
    \/ a.entry_date = b.entry_date /\ TimeKey(a) >= TimeKey(b)

InQueryOrder(rows) ==
    \A i \in 1..(Len(rows) - 1) : MayPrecede(rows[i], rows[i + 1])

InsertAt(rows, i, e) == SubSeq(rows, 1, i - 1) \o <<e>> \o SubSeq(rows, i, Len(rows))

RemoveAt(rows, i) == SubSeq(rows, 1, i - 1) \o SubSeq(rows, i + 1, Len(rows))

getJournalEntries(rows) == rows

getEntriesByDateRange(rows, startDate, endDate) ==
    SelectSeq(rows, LAMBDA e : e.entry_date >= startDate /\ e.entry_date <= endDate)

\* The workout-type catalog getWorkoutTypes returns.
workoutTypes ==
    <<[id |-> "wt-train", name |-> "Training"], [id |-> "wt-lift", name |-> "Lift"]>>

(***************************************************************************)
(* State machine.                                                          *)
(***************************************************************************)
NoReport == [none |-> TRUE]
NoRange == [none |-> TRUE]
NoInsightsIn == [none |-> TRUE]
NoInsights == [none |-> TRUE]
NoError == [none |-> TRUE]

\* StatsScreen before its effect has run: period "month", loading, no stats.
ScreenInit ==
    [mounted |-> FALSE, effectFor |-> "", period |-> "month", loading |-> TRUE,
     stats |-> NoReport, error |-> ""]

\* A notification_preferences row (the columns scheduling reads) and its absence.
NoPrefs == [none |-> TRUE]
Prefs(enabled, times, days) ==
    [enabled |-> enabled, reminder_times |-> times, reminder_days |-> days]
EveningMonday == Prefs(TRUE, <<"18:00">>, <<1>>)
MorningSunWed == Prefs(TRUE, <<"09:00">>, <<0, 3>>)
Disabled == Prefs(FALSE, <<"18:00">>, <<1>>)
PrefsInputs == {EveningMonday, MorningSunWed, Disabled}

\* A signed-in user with a preferences row; no deleteAccount has run.
AccountInit ==
    [signedIn |-> TRUE, authUser |-> TRUE, preferences |-> EveningMonday,
     rpc |-> "none", alert |-> ""]

\* No scheduleNotifications call in flight, none made yet.
Idle == [pc |-> "idle"]
NoLast == [none |-> TRUE]
NoSched == [launch |-> Idle, save |-> Idle, last |-> NoLast]

NoStreakIn == [none |-> TRUE]
NoStreak == [none |-> TRUE]
NoTrendIn == [none |-> TRUE]
NoTrend == "none"

NoTimeIn == [none |-> TRUE]
NoBucket == "none"

\* No call of calculateMoodTrend, of getTimeOfDay made.
TrendIdle ==
    /\ trendIn = NoTrendIn
    /\ trend = NoTrend

TimeIdle ==
    /\ timeIn = NoTimeIn
    /\ bucket = NoBucket

NoProfileIn == [none |-> TRUE]
NoProfile == [none |-> TRUE]

ProfileIdle ==
    /\ profileIn = NoProfileIn
    /\ profile = NoProfile

PureIdle == TrendIdle /\ TimeIdle /\ ProfileIdle

AsyncIdle ==
    /\ streakIn = NoStreakIn
    /\ streak = NoStreak
    /\ PureIdle
    /\ calls = << >>
    /\ screen = ScreenInit
    /\ queue = EmptyBag
    /\ sched = NoSched
    /\ account = AccountInit

UTCZone == [std |-> 0, dstFrom |-> 0, dstTo |-> 0]
Tokyo == [std |-> 9, dstFrom |-> 0, dstTo |-> 0]
\* America/New_York in 2024: EDT from 2024-03-10T07:00Z to 2024-11-03T06:00Z.
NewYork == [std |-> -5, dstFrom |-> UTCInstant(2024, 2, 10, 7),
            dstTo |-> UTCInstant(2024, 10, 3, 6)]
\* Europe/Berlin in 2024: CEST from 2024-03-31T01:00Z to 2024-10-27T01:00Z.
Berlin == [std |-> 1, dstFrom |-> UTCInstant(2024, 2, 31, 1),
           dstTo |-> UTCInstant(2024, 9, 27, 1)]

Zones == {UTCZone, Tokyo, NewYork, Berlin}

\* 2024-11-04, the day the calendar scenarios are laid around.
BaseDay == MakeDay(2024, 10, 4)

Entry(date, time, mood, wt) ==
    [entry_date |-> date, entry_time |-> time, mood_score |-> mood,
     workout_type_id |-> wt]

\* Rows that differ in their date (and mood): the days before and after BaseDay.
DayEntries ==
    {Entry(BaseDay + d, NoTime, m, NoId) :
        d \in {-10, -3, -2, -1, 0, 1}, m \in {NullScore, 8}}

\* Rows that differ in workout type, in time of day, or in date, with and
\* without a mood score.
StatsEntries ==
    {Entry(BaseDay, NoTime, m, w) :
        m \in {NullScore, 4, 9}, w \in {"wt-lift", "wt-train"}}
    \cup {Entry(BaseDay, <<6, 0>>, m, w) :
        m \in {NullScore, 9}, w \in {NoId, "wt-gone"}}
    \cup {Entry(BaseDay, t, m, NoId) :
        t \in {<<13, 15>>, <<18, 30>>, <<23, 0>>}, m \in {4, 9}}
    \cup {Entry(BaseDay - d, NoTime, 4, NoId) : d \in {1, 9}}

\* createEntry: a new row; the queries return it in its place of the order.
CreateEntry(e) ==
    /\ Len(store) < MaxEntries
    /\ \E i \in 1..(Len(store) + 1) :
         /\ InQueryOrder(InsertAt(store, i, e))
         /\ store' = InsertAt(store, i, e)
    /\ report' = NoReport
    /\ UNCHANGED <<now, zone, ticks, lastRange, insightsIn, insights>>
    /\ UNCHANGED <<asyncVars, pureVars>>

\* deleteEntry
DeleteEntry(i) ==
    /\ i \in DOMAIN store
    /\ store' = RemoveAt(store, i)
    /\ report' = NoReport
    /\ UNCHANGED <<now, zone, ticks, lastRange, insightsIn, insights>>
    /\ UNCHANGED <<asyncVars, pureVars>>

\* The clock advances by h hours.
Tick(h) ==
    /\ ticks < MaxTicks
    /\ now' = now + h
    /\ ticks' = ticks + 1
    /\ report' = IF ToISODate(now + h) = ToISODate(now) THEN report ELSE NoReport
    /\ lastRange' = NoRange
    /\ UNCHANGED <<store, zone, insightsIn, insights>>
    /\ UNCHANGED <<asyncVars, pureVars>>

\* getStats(period): resolve the window, fetch, aggregate.
CallGetStats(period) ==
    /\ LET range == getDateRangeForPeriod(period, zone, now)
           entries == getEntriesByDateRange(store, range.startDate, range.endDate)
           allEntries == getJournalEntries(store)
       IN  report' = getStats(period, entries, allEntries, workoutTypes, zone, now)
    /\ UNCHANGED <<store, now, zone, ticks, lastRange, insightsIn, insights>>
    /\ UNCHANGED <<asyncVars, pureVars>>

\* getDateRangeForPeriod(period) on its own.
ResolveRange(period) ==
    /\ LET range == getDateRangeForPeriod(period, zone, now)
       IN  lastRange' = [period |-> period, startDate |-> range.startDate,
                         endDate |-> range.endDate]
    /\ UNCHANGED <<store, now, zone, ticks, report, insightsIn, insights>>
    /\ UNCHANGED <<asyncVars, pureVars>>

\* generateInsights on the arguments drawn in the initial state.
CallGenerateInsights ==
    /\ insightsIn # NoInsightsIn
    /\ insights = NoInsights
    /\ insights' = [list |-> generateInsights(insightsIn.summary,
                                              insightsIn.workoutStats,
                                              insightsIn.timePatterns)]
    /\ UNCHANGED <<store, now, zone, ticks, report, lastRange, insightsIn>>
    /\ UNCHANGED <<asyncVars, pureVars>>

\* The aggregation over one day's rows, in UTC.
Init ==
    /\ store = << >>
    /\ now = UTCInstant(2024, 10, 4, 12)
    /\ zone = UTCZone
    /\ ticks = 0
    /\ report = NoReport
    /\ lastRange = NoRange
    /\ insightsIn = NoInsightsIn
    /\ insights = NoInsights
    /\ AsyncIdle

Next ==
    \/ \E e \in StatsEntries : CreateEntry(e)
    \/ \E i \in 1..MaxEntries : DeleteEntry(i)
    \/ \E p \in Periods : CallGetStats(p)

Spec == Init /\ [][Next]_vars

\* The streak over calendar days, in several zones, as the clock advances.
InitDay ==
    /\ store = << >>
    /\ now = UTCInstant(2024, 10, 4, 2)
    /\ zone \in {UTCZone, Tokyo, NewYork}
    /\ ticks = 0
    /\ report = NoReport
    /\ lastRange = NoRange
    /\ insightsIn = NoInsightsIn
    /\ insights = NoInsights
    /\ AsyncIdle

NextDay ==
    \/ \E e \in DayEntries : CreateEntry(e)
    \/ \E i \in 1..MaxEntries : DeleteEntry(i)
    \/ \E p \in Periods : CallGetStats(p)
    \/ Tick(11)

SpecDay == InitDay /\ [][NextDay]_vars

\* The date-range resolver at instants around month, year and daylight-saving
\* boundaries.
RangeDays ==
    {MakeDay(2024, 2, 12), MakeDay(2024, 6, 15), MakeDay(2024, 10, 1),
     MakeDay(2024, 10, 4), MakeDay(2024, 11, 31), MakeDay(2025, 0, 1)}

InitRange ==
    /\ store = << >>
    /\ now \in {d * 24 + h : d \in RangeDays, h \in {0, 5, 12, 20}}
    /\ zone \in Zones
    /\ ticks = 0
    /\ report = NoReport
    /\ lastRange = NoRange
    /\ insightsIn = NoInsightsIn
    /\ insights = NoInsights
    /\ AsyncIdle

NextRange ==
    \/ \E p \in Periods : ResolveRange(p)
    \/ Tick(1)

SpecRange == InitRange /\ [][NextRange]_vars

\* generateInsights on arguments drawn directly: every combination of the
\* values below.
WorkoutStat(id, name, avg) ==
    [workoutTypeId |-> id, workoutTypeName |-> name, entryCount |-> 2,
     averageMood |-> avg, percentage |-> Percentage(2, 4)]

WorkoutStatInputs ==
    {WorkoutStat("wt-train", "Training", a) :
        a \in {NullAvg, [num |-> 13, den |-> 2], [num |-> 9, den |-> 1]}}
    \cup {WorkoutStat("wt-lift", "Lift", [num |-> 9, den |-> 1])}

SeqsUpTo(S, n) == UNION {[1..k -> S] : k \in 0..n}

TimePattern(timeOfDay, avg) ==
    [timeOfDay |-> timeOfDay, averageMood |-> avg,
     entryCount |-> IF avg.den = 0 THEN 0 ELSE 2]

TimePatternInputs ==
    {<<TimePattern("morning", a), TimePattern("afternoon", b),
       TimePattern("evening", c), TimePattern("night", d)>> :
        a \in {NullAvg, [num |-> 6, den |-> 1], [num |-> 15, den |-> 2]},
        b \in {NullAvg, [num |-> 9, den |-> 1]},
        c \in {NullAvg, [num |-> 8, den |-> 1]},
        d \in {NullAvg, [num |-> 6, den |-> 1], [num |-> 9, den |-> 1]}}

SummaryInputs ==
    {[period |-> "week", totalEntries |-> 4, averageMood |-> a, moodTrend |-> t,
      mostActiveWorkoutType |-> "Training",
      streakData |-> [currentStreak |-> n, longestStreak |-> n,
                      totalDaysWithEntries |-> n]] :
        a \in {NullAvg, [num |-> 11, den |-> 2], [num |-> 6, den |-> 1],
               [num |-> 17, den |-> 2]},
        t \in {"improving", "declining", "stable"},
        n \in {0, 1, 6, 7, 10}}

InitInsights ==
    /\ store = << >>
    /\ now = UTCInstant(2024, 10, 4, 12)
    /\ zone = UTCZone
    /\ ticks = 0
    /\ report = NoReport
    /\ lastRange = NoRange
    /\ insightsIn \in [summary : SummaryInputs,
                       workoutStats : SeqsUpTo(WorkoutStatInputs, MaxWorkoutStats),
                       timePatterns : TimePatternInputs]
    /\ insights = NoInsights
    /\ AsyncIdle

NextInsights == CallGenerateInsights

SpecInsights == InitInsights /\ [][NextInsights]_vars

(***************************************************************************)
(* getStats as StatsScreen runs it: three awaited fetches, one after the   *)
(* other, then the aggregation; the store may change in between.           *)
(***************************************************************************)
MaxCalls == 2         \* getStats calls StatsScreen may have in flight

\* What the store's client can answer instead of rows: a PostgrestError.
PostgrestErrors ==
    {[code |-> "", message |-> "TypeError: Network request failed"],
     [code |-> "42501", message |-> "permission denied for table journal_entries"],
     [code |-> "57014", message |-> ""]}

handleSupabaseError(error) ==
    IF error.code = "PGRST116"
    THEN [name |-> "NotFoundError", message |-> "Resource not found", code |-> "NOT_FOUND"]
    ELSE IF error.code = "23505"
    THEN [name |-> "ValidationError", message |-> "A record with this value already exists",
          code |-> "VALIDATION_ERROR"]
    ELSE IF error.code = "23503"
    THEN [name |-> "ValidationError", message |-> "Referenced record does not exist",
          code |-> "VALIDATION_ERROR"]
    ELSE IF error.code = "42501"
    THEN [name |-> "UnauthorizedError", message |-> "Insufficient permissions",
          code |-> "UNAUTHORIZED"]
    ELSE [name |-> "ApiError",
          message |-> IF error.message # "" THEN error.message
                      ELSE "Database error occurred",
          code |-> error.code]

\* getStats up to its first await: the range is resolved, the window query sent.
StartGetStats(period) ==
    LET range == getDateRangeForPeriod(period, zone, now)
    IN  [period |-> period, startDate |-> range.startDate, endDate |-> range.endDate,
         pc |-> "window", fetched |-> {},
         entries |-> << >>, allEntries |-> << >>, workoutTypes |-> << >>,
         result |-> NoReport, thrown |-> NoError, error |-> NoError]

\* Mutant: the all-entries fetch is not awaited.
AfterWindowSkipAll == "types"

\* The await that follows the window fetch.
AfterWindow == "all"

\* Mutant: a failed fetch is swallowed and a report over no rows is returned.
OnFetchErrorFallback(c, err) ==
    [c EXCEPT !.pc = "resolved", !.thrown = err,
              !.result = getStats(c.period, << >>, << >>, << >>, zone, now)]

\* No try/catch in getStats: what a fetch throws rejects the call.
OnFetchError(c, err) ==
    [c EXCEPT !.pc = "rejected", !.thrown = err, !.error = err]

\* loadStats after await getStats(period): setStats / setError, setLoading(false).
Settle(c) ==
    IF c.pc = "resolved"
    THEN [screen EXCEPT !.stats = c.result, !.loading = FALSE]
    ELSE [screen EXCEPT !.error = IF c.error.message # "" THEN c.error.message
                                  ELSE "Failed to load statistics",
                        !.loading = FALSE]

\* The calls that have not settled; calls keeps a settled one until the next
\* load starts.
InFlight(cs) == SelectSeq(cs, LAMBDA c : c.pc \in {"window", "all", "types"})

\* What StatsScreen renders: the spinner while loading, the error view for an
\* error or no stats, the report with the period selector otherwise.
View(s) ==
    IF s.loading THEN "spinner"
    ELSE IF s.error # "" \/ s.stats = NoReport THEN "error"
    ELSE "report"

\* The effect has run for the period the state holds.
EffectDone(s) == s.mounted /\ s.effectFor = s.period

\* onPress of a period button, setPeriod(p): the selector is part of the
\* report view only; React runs the effect of a render before it takes the
\* next press.
PressPeriod(p) ==
    /\ View(screen) = "report"
    /\ EffectDone(screen)
    /\ p # screen.period
    /\ screen' = [screen EXCEPT !.period = p]
    /\ UNCHANGED <<statsVars, pureVars, calls, queue, sched, account>>

\* The effect of StatsScreen, after the first render and after every render
\* with another period: loadStats up to await getStats(period).
LoadStats ==
    /\ Len(InFlight(calls)) < MaxCalls
    /\ ~EffectDone(screen)
    /\ screen' = [screen EXCEPT !.mounted = TRUE, !.effectFor = screen.period,
                                !.loading = TRUE, !.error = ""]
    /\ calls' = Append(InFlight(calls), StartGetStats(screen.period))
    /\ UNCHANGED <<statsVars, pureVars, queue, sched, account>>

\* const entries = await getEntriesByDateRange(startDate, endDate)
FetchWindow(i) ==
    /\ i \in DOMAIN calls
    /\ calls[i].pc = "window"
    /\ LET c == calls[i]
       IN  calls' = [calls EXCEPT ![i] =
               [c EXCEPT !.entries = getEntriesByDateRange(store, c.startDate, c.endDate),
                         !.fetched = c.fetched \cup {"window"},
                         !.pc = AfterWindow]]
    /\ UNCHANGED <<statsVars, pureVars, screen, queue, sched, account>>

\* const allEntries = await getJournalEntries()
FetchAll(i) ==
    /\ i \in DOMAIN calls
    /\ calls[i].pc = "all"
    /\ LET c == calls[i]
       IN  calls' = [calls EXCEPT ![i] =
               [c EXCEPT !.allEntries = getJournalEntries(store),
                         !.fetched = c.fetched \cup {"all"},
                         !.pc = "types"]]
    /\ UNCHANGED <<statsVars, pureVars, screen, queue, sched, account>>

\* const workoutTypes = await getWorkoutTypes(), then the aggregation, the
\* return and the rest of loadStats.
FetchTypes(i) ==
    /\ i \in DOMAIN calls
    /\ calls[i].pc = "types"
    /\ LET c == calls[i]
           done == [c EXCEPT !.workoutTypes = workoutTypes,
                             !.fetched = c.fetched \cup {"types"},
                             !.pc = "resolved",
                             !.result = getStats(c.period, c.entries, c.allEntries,
                                                 workoutTypes, zone, now)]
       IN  /\ calls' = [calls EXCEPT ![i] = done]
           /\ screen' = Settle(done)
    /\ UNCHANGED <<statsVars, pureVars, queue, sched, account>>

\* Any of the three fetches answers with an error: the fetch throws, getStats
\* rejects, loadStats catches.
FetchFails(i, error) ==
    /\ i \in DOMAIN calls
    /\ calls[i].pc \in {"window", "all", "types"}
    /\ LET done == OnFetchError(calls[i], handleSupabaseError(error))
       IN  /\ calls' = [calls EXCEPT ![i] = done]
           /\ screen' = Settle(done)
    /\ UNCHANGED <<statsVars, pureVars, queue, sched, account>>

\* Rows for the fetches: today, and a day outside week and month, each logged
\* once.
FetchEntries ==
    {Entry(BaseDay, <<6, 0>>, 8, "wt-train"),
     Entry(BaseDay - 40, NoTime, 4, "wt-lift")}

InitFetch ==
    /\ store = << >>
    /\ now = UTCInstant(2024, 10, 4, 12)
    /\ zone = UTCZone
    /\ ticks = 0
    /\ report = NoReport
    /\ lastRange = NoRange
    /\ insightsIn = NoInsightsIn
    /\ insights = NoInsights
    /\ AsyncIdle

NextFetch ==
    \/ \E e \in FetchEntries : e \notin Range(store) /\ CreateEntry(e)
    \/ \E i \in 1..MaxEntries : DeleteEntry(i)
    \/ \E p \in Periods : PressPeriod(p)
    \/ LoadStats
    \/ \E i \in 1..MaxCalls : FetchWindow(i)
    \/ \E i \in 1..MaxCalls : FetchAll(i)
    \/ \E i \in 1..MaxCalls : FetchTypes(i)
    \/ \E i \in 1..MaxCalls : \E error \in PostgrestErrors : FetchFails(i, error)

SpecFetch == InitFetch /\ [][NextFetch]_vars

(***************************************************************************)
(* Settings: scheduleNotifications (src/services/notifications.ts) as app  *)
(* launch and settings save call it, and deleteAccount (src/api/auth.ts).  *)
(***************************************************************************)
MaxQueue == 4         \* notifications the OS queue holds

\* The row getNotificationPreferences inserts when the user has none.
DefaultPrefs == Prefs(TRUE, <<"18:00">>, <<0, 1, 2, 3, 4, 5, 6>>)

\* timeStr.split(":").map(Number), for the times the model uses.
SplitTime(timeStr) ==
    CASE timeStr = "18:00" -> <<18, 0>>
      [] timeStr = "09:00" -> <<9, 0>>

\* The trigger scheduleNotificationAsync is given for one (time, day) pair.
Trigger(timeStr, day) ==
    [weekday |-> IF day = 0 THEN 1 ELSE day + 1,
     hour |-> SplitTime(timeStr)[1],
     minute |-> SplitTime(timeStr)[2],
     repeats |-> TRUE]

\* The triggers of a preferences row in the order of the two loops.
TriggersOf(prefs) ==
    LET times == prefs.reminder_times
        days == prefs.reminder_days
    IN  [k \in 1..(Len(times) * Len(days)) |->
            Trigger(times[((k - 1) \div Len(days)) + 1],
                    days[((k - 1) % Len(days)) + 1])]

\* scheduleNotifications(prefs) up to its first await (cancelAllNotifications).
StartSchedule(caller, prefs) ==
    [sched EXCEPT ![caller] = [pc |-> "cancel", prefs |-> prefs, todo |-> << >>],
                  !.last = [caller |-> caller, prefs |-> prefs, outcome |-> "running"]]

\* A call of caller ends with outcome.  last describes the call started last;
\* if an older call ends after it has ended, it is marked "overtaken".
Finish(caller, outcome) ==
    [sched EXCEPT ![caller] = Idle,
                  !.last = IF sched.last = NoLast THEN sched.last
                           ELSE IF sched.last.caller = caller
                           THEN [sched.last EXCEPT !.outcome = outcome]
                           ELSE IF sched.last.outcome # "running"
                           THEN [sched.last EXCEPT !.outcome = "overtaken"]
                           ELSE sched.last]

\* NotificationSetup's effect: load the preferences (inserting the default
\* row if there is none) and schedule if enabled.
AppLaunch ==
    /\ account.signedIn
    /\ sched.launch.pc = "idle"
    /\ LET row == IF account.preferences = NoPrefs THEN DefaultPrefs
                  ELSE account.preferences
       IN  /\ account' = [account EXCEPT !.preferences = row]
           /\ sched' = IF row.enabled THEN StartSchedule("launch", row) ELSE sched
    /\ UNCHANGED <<statsVars, pureVars, calls, screen, queue>>

\* handleSave: update the row; if enabled and permitted, scheduleNotifications;
\* if disabled, cancelAllNotifications.
SaveSettings(prefs, granted) ==
    /\ account.signedIn
    /\ account.preferences # NoPrefs
    /\ sched.save.pc = "idle"
    /\ account' = [account EXCEPT !.preferences = prefs]
    /\ sched' = IF prefs.enabled
                THEN IF granted THEN StartSchedule("save", prefs) ELSE sched
                ELSE [sched EXCEPT !.save = [pc |-> "cancelOnly", prefs |-> prefs,
                                             todo |-> << >>],
                                   !.last = [caller |-> "save", prefs |-> prefs,
                                             outcome |-> "running"]]
    /\ UNCHANGED <<statsVars, pureVars, calls, screen, queue>>

\* await cancelAllNotifications(): in scheduleNotifications an error is logged
\* and the call goes on.
CancelStep(caller, ok) ==
    /\ sched[caller].pc \in {"cancel", "cancelOnly"}
    /\ queue' = IF ok THEN EmptyBag ELSE queue
    /\ sched' = IF sched[caller].pc = "cancelOnly" \/ ~sched[caller].prefs.enabled
                THEN Finish(caller, "cancelled")
                ELSE [sched EXCEPT ![caller].pc = "permission"]
    /\ UNCHANGED <<statsVars, pureVars, calls, screen, account>>

\* await requestNotificationPermissions()
PermissionStep(caller, granted) ==
    /\ sched[caller].pc = "permission"
    /\ sched' = IF ~granted THEN Finish(caller, "denied")
                ELSE IF TriggersOf(sched[caller].prefs) = << >>
                THEN Finish(caller, "scheduled")
                ELSE [sched EXCEPT ![caller].pc = "schedule",
                                   ![caller].todo = TriggersOf(sched[caller].prefs)]
    /\ UNCHANGED <<statsVars, pureVars, calls, screen, queue, account>>

\* await Notifications.scheduleNotificationAsync(...) for the next pair.
ScheduleStep(caller) ==
    /\ sched[caller].pc = "schedule"
    /\ BagCardinality(queue) < MaxQueue
    /\ queue' = queue (+) SetToBag({Head(sched[caller].todo)})
    /\ sched' = IF Tail(sched[caller].todo) = << >>
                THEN Finish(caller, "scheduled")
                ELSE [sched EXCEPT ![caller].todo = Tail(sched[caller].todo)]
    /\ UNCHANGED <<statsVars, pureVars, calls, screen, account>>

\* scheduleNotificationAsync throws: logged and thrown on.
ScheduleFails(caller) ==
    /\ sched[caller].pc = "schedule"
    /\ sched' = Finish(caller, "failed")
    /\ UNCHANGED <<statsVars, pureVars, calls, screen, queue, account>>

\* What supabase.rpc("delete_user_account") can answer instead of success.
RpcErrors ==
    {[code |-> "PGRST202",
      message |-> "Could not find the function public.delete_user_account without parameters in the schema cache"],
     [code |-> "", message |-> "TypeError: Network request failed"]}

\* rpcError.message?.includes("function") || ...includes("does not exist"),
\* for the messages the model uses.
MentionsMissingFunction(message) ==
    message = "Could not find the function public.delete_user_account without parameters in the schema cache"

SetupRequiredMessage ==
    "Account deletion requires database setup. Your data has been removed and you have been signed out. Please contact support to complete account deletion."

\* deleteAccount after a failed RPC: delete the preferences row (errors are
\* ignored), sign out, throw; handleDeleteAccount shows the message.
DeleteFallback(acc, rpcError, prefsDeleted) ==
    [acc EXCEPT !.rpc = "failed",
                !.preferences = IF prefsDeleted THEN NoPrefs ELSE acc.preferences,
                !.signedIn = FALSE,
                !.alert = IF MentionsMissingFunction(rpcError.message)
                          THEN SetupRequiredMessage
                          ELSE handleSupabaseError(rpcError).message]

\* handleDeleteAccount, both confirmations given: deleteAccount(), then
\* signOut() and the "Account Deleted" alert, or the error alert.
DeleteAccount(getUser, rpcError, prefsDeleted) ==
    /\ account.signedIn
    /\ \/ /\ getUser = "error"
          /\ account' = [account EXCEPT !.rpc = "none",
                             !.alert = handleSupabaseError(
                                 [code |-> "", message |-> "TypeError: Network request failed"]).message]
          /\ UNCHANGED store
       \/ /\ getUser = "none"
          /\ account' = [account EXCEPT !.rpc = "none",
                             !.alert = "User must be authenticated to delete account"]
          /\ UNCHANGED store
       \/ /\ getUser = "user"
          /\ rpcError = NoError
          /\ store' = << >>
          /\ account' = [account EXCEPT !.rpc = "ok", !.preferences = NoPrefs,
                             !.authUser = FALSE, !.signedIn = FALSE,
                             !.alert = "Your account has been successfully deleted."]
       \/ /\ getUser = "user"
          /\ rpcError # NoError
          /\ account' = DeleteFallback(account, rpcError, prefsDeleted)
          /\ UNCHANGED store
    /\ UNCHANGED <<now, zone, ticks, report, lastRange, insightsIn, insights,
                   calls, screen, queue, sched, pureVars>>

\* The user's journal when the settings screen opens.
SettingsEntries == <<Entry(BaseDay, <<6, 0>>, 8, "wt-train")>>

InitSettings ==
    /\ store = SettingsEntries
    /\ now = UTCInstant(2024, 10, 4, 12)
    /\ zone = UTCZone
    /\ ticks = 0
    /\ report = NoReport
    /\ lastRange = NoRange
    /\ insightsIn = NoInsightsIn
    /\ insights = NoInsights
    /\ AsyncIdle

NextSettings ==
    \/ AppLaunch
    \/ \E prefs \in PrefsInputs : \E granted \in BOOLEAN : SaveSettings(prefs, granted)
    \/ \E caller \in {"launch", "save"} : \E ok \in BOOLEAN : CancelStep(caller, ok)
    \/ \E caller \in {"launch", "save"} : \E granted \in BOOLEAN :
           PermissionStep(caller, granted)
    \/ \E caller \in {"launch", "save"} : ScheduleStep(caller)
    \/ \E caller \in {"launch", "save"} : ScheduleFails(caller)
    \/ \E getUser \in {"user", "error", "none"} :
           \E rpcError \in RpcErrors \cup {NoError} : \E prefsDeleted \in BOOLEAN :
               DeleteAccount(getUser, rpcError, prefsDeleted)

SpecSettings == InitSettings /\ [][NextSettings]_vars

(***************************************************************************)
(* calculateStreak on its own, over entry lists in any order.              *)
(***************************************************************************)
MaxStreakEntries == 4 \* length of an entry list drawn directly

\* The dates of the drawn rows: four days back to one day ahead of BaseDay.
StreakDays == {BaseDay + d : d \in {-4, -3, -2, -1, 0, 1}}

StreakInputs ==
    UNION {[1..k -> {Entry(d, NoTime, NullScore, NoId) : d \in StreakDays}] :
               k \in 0..MaxStreakEntries}

CallCalculateStreak ==
    /\ streakIn # NoStreakIn
    /\ streak = NoStreak
    /\ streak' = calculateStreak(streakIn.entries, zone, now)
    /\ UNCHANGED <<statsVars, asyncVars, streakIn, trendVars, timeVars, profileVars>>

InitStreak ==
    /\ store = << >>
    /\ now \in {UTCInstant(2024, 10, 4, 2), UTCInstant(2024, 10, 4, 20)}
    /\ zone \in {UTCZone, Tokyo, NewYork}
    /\ ticks = 0
    /\ report = NoReport
    /\ lastRange = NoRange
    /\ insightsIn = NoInsightsIn
    /\ insights = NoInsights
    /\ calls = << >>
    /\ screen = ScreenInit
    /\ queue = EmptyBag
    /\ sched = NoSched
    /\ account = AccountInit
    /\ streakIn \in [entries : StreakInputs]
    /\ streak = NoStreak
    /\ PureIdle

NextStreak == CallCalculateStreak

SpecStreak == InitStreak /\ [][NextStreak]_vars

(***************************************************************************)
(* calculateMoodTrend on point lists drawn directly.                       *)
(***************************************************************************)
MaxTrendPoints == 4   \* length of a moodTrends argument drawn directly

\* The averages a point carries: null, or sum / count of the day's scores
\* (7.3 is ten scores that sum to 73).
TrendAverages ==
    {NullAvg, Avg(4, 1), Avg(7, 1), Avg(73, 10), Avg(8, 1)}

\* moodTrends as getStats builds it: one point per date, dates ascending.
TrendInputs ==
    UNION {{[i \in 1..k |-> [date |-> BaseDay + i, averageMood |-> a[i],
                             entryCount |-> IF a[i] = NullAvg THEN 1 ELSE a[i].den]] :
                a \in [1..k -> TrendAverages]} : k \in 0..MaxTrendPoints}

CallCalculateMoodTrend ==
    /\ trendIn # NoTrendIn
    /\ trend = NoTrend
    /\ trend' = calculateMoodTrend(trendIn.moodTrends)
    /\ UNCHANGED <<statsVars, asyncVars, streakVars, trendIn, timeVars, profileVars>>

InitTrend ==
    /\ store = << >>
    /\ now = UTCInstant(2024, 10, 4, 12)
    /\ zone = UTCZone
    /\ ticks = 0
    /\ report = NoReport
    /\ lastRange = NoRange
    /\ insightsIn = NoInsightsIn
    /\ insights = NoInsights
    /\ calls = << >>
    /\ screen = ScreenInit
    /\ queue = EmptyBag
    /\ sched = NoSched
    /\ account = AccountInit
    /\ streakIn = NoStreakIn
    /\ streak = NoStreak
    /\ trendIn \in [moodTrends : TrendInputs]
    /\ trend = NoTrend
    /\ TimeIdle
    /\ ProfileIdle

NextTrend == CallCalculateMoodTrend

SpecTrend == InitTrend /\ [][NextTrend]_vars

(***************************************************************************)
(* getTimeOfDay on entry times drawn directly.                             *)
(***************************************************************************)
\* The times a row can hold: none, or any hour with one of three minutes.
TimeInputs ==
    {NoTime} \cup {<<h, m>> : h \in 0..23, m \in {0, 30, 59}}

CallGetTimeOfDay ==
    /\ timeIn # NoTimeIn
    /\ bucket = NoBucket
    /\ bucket' = getTimeOfDay(MatchTime(timeIn.entry_time))
    /\ UNCHANGED <<statsVars, asyncVars, streakVars, trendVars, timeIn, profileVars>>

InitTime ==
    /\ store = << >>
    /\ now = UTCInstant(2024, 10, 4, 12)
    /\ zone = UTCZone
    /\ ticks = 0
    /\ report = NoReport
    /\ lastRange = NoRange
    /\ insightsIn = NoInsightsIn
    /\ insights = NoInsights
    /\ calls = << >>
    /\ screen = ScreenInit
    /\ queue = EmptyBag
    /\ sched = NoSched
    /\ account = AccountInit
    /\ streakIn = NoStreakIn
    /\ streak = NoStreak
    /\ TrendIdle
    /\ ProfileIdle
    /\ \E time \in TimeInputs :
           timeIn = [time |-> time, entry_time |-> ColumnTime(time)]
    /\ bucket = NoBucket

NextTime == CallGetTimeOfDay

SpecTime == InitTime /\ [][NextTime]_vars

(***************************************************************************)
(* getProfileStatsSummary, beside getStats over the same rows.             *)
(***************************************************************************)
\* Object.entries(workoutTypeCounts): an [id, count] pair per workout type id
\* in the order of first encounter.
ProfileCounts(allEntries) ==
    LET ids == FirstSeenIds(allEntries, << >>)
    IN  [i \in DOMAIN ids |->
            [workoutTypeId |-> ids[i],
             entryCount |-> Len(SelectSeq(allEntries,
                                          LAMBDA e : e.workout_type_id = ids[i]))]]

\* .sort((a, b) => b[1] - a[1])[0]?.[0] || null
MostActiveWorkoutTypeId(allEntries) ==
    LET sorted == SortByCountDesc(ProfileCounts(allEntries))
    IN  IF sorted = << >> THEN NoId ELSE sorted[1].workoutTypeId

\* workoutTypeMap.get(id) || null; null is "".
ProfileWorkoutTypeName(catalog, id) ==
    LET named == {i \in DOMAIN catalog : catalog[i].id = id}
    IN  IF named = {} THEN ""
        ELSE catalog[CHOOSE i \in named : \A j \in named : j <= i].name

\* What getProfileStatsSummary returns from the rows and the catalog fetched.
getProfileStatsSummary(allEntries, catalog, z, t) ==
    LET streakData == calculateStreak(allEntries, z, t)
        mostActiveWorkoutTypeId == MostActiveWorkoutTypeId(allEntries)
    IN  [totalEntries |-> Len(allEntries),
         currentStreak |-> streakData.currentStreak,
         longestStreak |-> streakData.longestStreak,
         averageMood |-> AverageMoodOf(allEntries),
         mostActiveWorkoutType |->
             IF mostActiveWorkoutTypeId # NoId
             THEN ProfileWorkoutTypeName(catalog, mostActiveWorkoutTypeId)
             ELSE ""]

\* Rows of today that differ in workout type: named in the catalog, not named
\* in it, none.
ProfileEntries ==
    {Entry(BaseDay, NoTime, 8, w) : w \in {"wt-train", "wt-lift", "wt-gone", NoId}}

ProfileInputs ==
    [allEntries : UNION {[1..k -> ProfileEntries] : k \in 0..MaxEntries},
     workoutTypes : {workoutTypes}]

CallGetProfileStatsSummary ==
    /\ profileIn # NoProfileIn
    /\ profile = NoProfile
    /\ profile' = getProfileStatsSummary(profileIn.allEntries, profileIn.workoutTypes,
                                          zone, now)
    /\ UNCHANGED <<statsVars, asyncVars, streakVars, trendVars, timeVars, profileIn>>

\* getStats("month") when its fetches return the same rows and catalog.
CallGetStatsOnProfileRows ==
    /\ profileIn # NoProfileIn
    /\ report = NoReport
    /\ report' = getStats("month", profileIn.allEntries, profileIn.allEntries,
                          profileIn.workoutTypes, zone, now)
    /\ UNCHANGED <<store, now, zone, ticks, lastRange, insightsIn, insights,
                   asyncVars, pureVars>>

InitProfile ==
    /\ store = << >>
    /\ now = UTCInstant(2024, 10, 4, 12)
    /\ zone = UTCZone
    /\ ticks = 0
    /\ report = NoReport
    /\ lastRange = NoRange
    /\ insightsIn = NoInsightsIn
    /\ insights = NoInsights
    /\ calls = << >>
    /\ screen = ScreenInit
    /\ queue = EmptyBag
    /\ sched = NoSched
    /\ account = AccountInit
    /\ streakIn = NoStreakIn
    /\ streak = NoStreak
    /\ TrendIdle
    /\ TimeIdle
    /\ profileIn \in ProfileInputs
    /\ profile = NoProfile

NextProfile == CallGetProfileStatsSummary \/ CallGetStatsOnProfileRows

SpecProfile == InitProfile /\ [][NextProfile]_vars

(***************************************************************************)
(* Properties.                                                             *)
(***************************************************************************)
Called == insights # NoInsights

\* The rows getStats(period) fetched for the report held: the store has not
\* changed since.
WindowOf(r) ==
    LET range == getDateRangeForPeriod(r.summary.period, zone, now)
    IN  getEntriesByDateRange(store, range.startDate, range.endDate)

RECURSIVE SumPercentages(_)
SumPercentages(dist) ==
    IF dist = << >> THEN [num |-> 0, den |-> 1]
    ELSE FracAdd(Head(dist).percentage, SumPercentages(Tail(dist)))

\* C1: for every list of journal entries and every today, calculateStreak
\* returns currentStreak <= longestStreak, and both are at most
\* totalDaysWithEntries.
C1_StreakOrder ==
    report # NoReport =>
        LET s == report.summary.streakData
        IN  /\ s.currentStreak <= s.longestStreak
            /\ s.currentStreak <= s.totalDaysWithEntries
            /\ s.longestStreak <= s.totalDaysWithEntries

\* The conditions of rules 1-5, read off the rule list rather than the code.
StreakRuleFires(in) == in.summary.streakData.currentStreak > 0
TrendRuleFires(in) == in.summary.moodTrend \in {"improving", "declining"}
ActivityRuleFires(in) ==
    /\ in.workoutStats # << >>
    /\ in.workoutStats[1].averageMood.den # 0
    /\ AtLeast(in.workoutStats[1].averageMood, 7)
TimeRuleFires(in) ==
    \E i \in DOMAIN in.timePatterns :
        /\ in.timePatterns[i].averageMood.den # 0
        /\ AtLeast(in.timePatterns[i].averageMood, 7)
MoodRuleFires(in) ==
    in.summary.averageMood.den # 0 /\ AtLeast(in.summary.averageMood, 6)

SomeRuleFires(in) ==
    \/ StreakRuleFires(in) \/ TrendRuleFires(in) \/ ActivityRuleFires(in)
    \/ TimeRuleFires(in) \/ MoodRuleFires(in)

\* C2: generateInsights never returns an empty list; the result contains the
\* fallback string exactly when none of rules 1-5 produced a string, and then
\* the fallback is its only element.
C2_FallbackIffNoRule ==
    Called =>
        /\ Len(insights.list) > 0
        /\ (FallbackMessage \in Range(insights.list)) <=> ~SomeRuleFires(insightsIn)
        /\ ~SomeRuleFires(insightsIn) => insights.list = <<FallbackMessage>>

C2_Witness ==
    /\ Called
    /\ ~SomeRuleFires(insightsIn)
    /\ insightsIn.workoutStats # << >>
    /\ insights.list = <<FallbackMessage>>

\* The window rows that carry a workout type.
TypedRows(rows) == SelectSeq(rows, HasWorkoutType)

\* C3 as stated: whenever the window has a row with a workout type, the
\* percentages of workoutTypeDistribution sum to 100, also when other window
\* rows have no workout type.
C3_SumIs100 ==
    (report # NoReport /\ TypedRows(WindowOf(report)) # << >>) =>
        LET sum == SumPercentages(report.workoutTypeDistribution)
        IN  sum.num = 100 * sum.den

\* C3 amended: the percentages sum to 100 times the share of the window rows
\* that carry a workout type; the sum is 100 exactly when every window row
\* carries one.
C3_SumIsTypedShare ==
    (report # NoReport /\ TypedRows(WindowOf(report)) # << >>) =>
        LET sum == SumPercentages(report.workoutTypeDistribution)
            typed == Len(TypedRows(WindowOf(report)))
            total == Len(WindowOf(report))
        IN  /\ sum.num * total = 100 * typed * sum.den
            /\ (sum.num = 100 * sum.den) <=> (typed = total)

C3_Witness ==
    /\ report # NoReport
    /\ Len(report.workoutTypeDistribution) = 2
    /\ Len(TypedRows(WindowOf(report))) < Len(WindowOf(report))

\* C4: for every list of window rows, also the empty one and rows without a
\* time, timePatterns has exactly 4 elements, one for each of morning,
\* afternoon, evening and night, none repeated or missing.
C4_FourTimeBuckets ==
    report # NoReport =>
        /\ Len(report.timePatterns) = 4
        /\ {report.timePatterns[i].timeOfDay : i \in DOMAIN report.timePatterns}
               = {"morning", "afternoon", "evening", "night"}

C4_Witness ==
    /\ report # NoReport
    /\ \E i \in DOMAIN report.timePatterns : report.timePatterns[i].entryCount = 0
    /\ \E i \in DOMAIN store : store[i].entry_time = NoTime
    /\ \E i \in DOMAIN store : store[i].entry_time # NoTime

C6_EmptyStore ==
    (report # NoReport /\ store = << >>) =>
        /\ report.summary.streakData =
               [currentStreak |-> 0, longestStreak |-> 0, totalDaysWithEntries |-> 0]
        /\ report.moodTrends = << >>
        /\ report.workoutTypeDistribution = << >>
        /\ Len(report.timePatterns) = 4
        /\ \A i \in DOMAIN report.timePatterns :
               /\ report.timePatterns[i].entryCount = 0
               /\ report.timePatterns[i].averageMood = NullAvg
        /\ report.insights = <<"Start logging entries to see your insights!">>

C6_Witness == report # NoReport /\ store = << >>

\* The rule (1-5) a message belongs to, by the messages each rule can emit for
\* the arguments in; 0 for any other string.
RuleOf(in, msg) ==
    IF msg \in {LongStreakMessage(n) : n \in 1..10} \cup {KeepItUpMessage(n) : n \in 1..10}
    THEN 1
    ELSE IF msg \in {ImprovingMessage, DecliningMessage} THEN 2
    ELSE IF msg \in {MoodBoosterMessage(in.workoutStats[i].workoutTypeName,
                                        in.workoutStats[i].averageMood) :
                        i \in {j \in DOMAIN in.workoutStats :
                                  in.workoutStats[j].averageMood.den # 0}}
    THEN 3
    ELSE IF msg \in {BestTimeMessage(in.timePatterns[i].timeOfDay) :
                        i \in DOMAIN in.timePatterns}
    THEN 4
    ELSE IF msg \in {ExcellentMessage, DoingWellMessage} THEN 5
    ELSE 0

\* list holds rule messages only, in rule order, at most one per rule.
InRuleOrder(in, list) ==
    /\ \A i \in DOMAIN list : RuleOf(in, list[i]) \in 1..5
    /\ \A i \in DOMAIN list : \A j \in DOMAIN list :
           i < j => RuleOf(in, list[i]) < RuleOf(in, list[j])

\* The scenario in which all five rules are satisfied: a 10-day streak, an
\* improving trend, Training at 9.0 on top, morning best at 7.5, overall 8.5.
AllFiveScenario(in) ==
    /\ in.summary.streakData.currentStreak = 10
    /\ in.summary.moodTrend = "improving"
    /\ in.summary.averageMood = [num |-> 17, den |-> 2]
    /\ in.workoutStats # << >>
    /\ in.workoutStats[1].workoutTypeName = "Training"
    /\ in.workoutStats[1].averageMood = [num |-> 9, den |-> 1]
    /\ in.timePatterns[1].averageMood = [num |-> 15, den |-> 2]
    /\ \A i \in 2..4 : in.timePatterns[i].averageMood = NullAvg

AllFiveMessages ==
    <<"Amazing! You're on a 10-day streak!",
      "Your mood has been improving over this period!",
      "Training sessions are your mood booster (avg 9.0/10)!",
      "Your best mood scores come during Morning sessions.",
      "You're maintaining excellent mood scores!">>

\* C7 as stated: the list generateInsights returns is always a subsequence of
\* [streak, mood-trend, top-activity, best-time, overall-mood] messages in
\* that order, at most one per rule; with all five rules satisfied it is
\* exactly those five.
C7_AlwaysRuleMessages ==
    Called =>
        /\ InRuleOrder(insightsIn, insights.list)
        /\ AllFiveScenario(insightsIn) => insights.list = AllFiveMessages

\* C7 amended: the list is either the one-element fallback list (when no rule
\* is satisfied) or a non-empty subsequence of the five rule messages in rule
\* order, at most one per rule; with all five rules satisfied it is exactly
\* those five.
C7_RuleMessagesOrFallback ==
    Called =>
        /\ \/ insights.list = <<FallbackMessage>> /\ ~SomeRuleFires(insightsIn)
           \/ /\ Len(insights.list) \in 1..5
              /\ InRuleOrder(insightsIn, insights.list)
        /\ AllFiveScenario(insightsIn) => insights.list = AllFiveMessages

C7_Witness ==
    /\ Called
    /\ AllFiveScenario(insightsIn)
    /\ insights.list = AllFiveMessages

\* C8: for period = week, endDate is today's calendar date and startDate is
\* the date exactly 6 days before endDate: the window spans 7 days.
C8_WeekSpansSevenDays ==
    (lastRange # NoRange /\ lastRange.period = "week") =>
        /\ lastRange.endDate = ToISODate(now)
        /\ lastRange.startDate = lastRange.endDate - 6

\* C9: for period = month, startDate is the 1st of the calendar month that
\* contains endDate; for period = year, it is January 1st of the year that
\* contains endDate; at every instant and in every zone.
C9_StartOfMonthAndYear ==
    /\ (lastRange # NoRange /\ lastRange.period = "month") =>
           LET c == CivilFromDay(lastRange.endDate)
           IN  lastRange.startDate = MakeDay(c.year, c.month, 1)
    /\ (lastRange # NoRange /\ lastRange.period = "year") =>
           LET c == CivilFromDay(lastRange.endDate)
           IN  lastRange.startDate = MakeDay(c.year, 0, 1)

\* C10: streakData depends only on the all-time rows and today: with both
\* fixed, getStats returns the same streakData for week, month and year,
\* whatever their windows contain.
C10_StreakIgnoresPeriod ==
    [][(report # NoReport /\ report' # NoReport) =>
           report'.summary.streakData = report.summary.streakData]_vars

C10_Witness ==
    /\ report # NoReport
    /\ report.summary.period = "week"
    /\ report.summary.totalEntries < Len(store)
    /\ report.summary.totalEntries > 0
    /\ report.summary.streakData.totalDaysWithEntries = 3

\* The window rows dated d, and those of them that carry a mood score.
RowsOn(rows, d) == SelectSeq(rows, LAMBDA e : e.entry_date = d)
ScoredOn(rows, d) == SelectSeq(rows, LAMBDA e : e.entry_date = d /\ e.mood_score # NullScore)
DatesOf(rows) == {rows[i].entry_date : i \in DOMAIN rows}
PointDates(points) == {points[i].date : i \in DOMAIN points}

\* C11 as stated: moodTrends has one point for each distinct date that has a
\* row in the window; a date whose rows carry no mood score yields a point
\* with a null averageMood and entryCount > 0.
C11_PointPerEntryDate ==
    report # NoReport =>
        LET rows == WindowOf(report)
        IN  /\ PointDates(report.moodTrends) = DatesOf(rows)
            /\ Len(report.moodTrends) = Cardinality(DatesOf(rows))
            /\ \A d \in DatesOf(rows) :
                   ScoredOn(rows, d) = << >> =>
                       \E i \in DOMAIN report.moodTrends :
                           /\ report.moodTrends[i].date = d
                           /\ report.moodTrends[i].averageMood = NullAvg
                           /\ report.moodTrends[i].entryCount > 0

\* C11 amended: moodTrends has one point for each distinct date that has a
\* window row with a mood score, in ascending date order; its averageMood is
\* the (non-null) mean of that date's scores and its entryCount counts all
\* window rows of the date; a date whose rows carry no score has no point.
C11_PointPerScoredDate ==
    report # NoReport =>
        LET rows == WindowOf(report)
            scored == {d \in DatesOf(rows) : ScoredOn(rows, d) # << >>}
            points == report.moodTrends
        IN  /\ PointDates(points) = scored
            /\ Len(points) = Cardinality(scored)
            /\ \A i \in DOMAIN points : \A j \in DOMAIN points :
                   i < j => points[i].date < points[j].date
            /\ \A i \in DOMAIN points :
                   LET with == ScoredOn(rows, points[i].date)
                   IN  /\ points[i].averageMood.den # 0
                       /\ points[i].averageMood.num * Len(with)
                              = SumSeq([k \in DOMAIN with |-> with[k].mood_score])
                                    * points[i].averageMood.den
                       /\ points[i].entryCount = Len(RowsOn(rows, points[i].date))

C11_Witness ==
    /\ report # NoReport
    /\ report.moodTrends # << >>
    /\ \E d \in DatesOf(WindowOf(report)) :
           /\ ScoredOn(WindowOf(report), d) = << >>
           /\ d \notin PointDates(report.moodTrends)

\* The call that resolves in the step from calls to calls'.
Resolves(i) == i \in DOMAIN calls /\ calls[i].pc # "resolved" /\ calls'[i].pc = "resolved"

\* C12: if the window fetch, the all-entries fetch or the workout-type fetch
\* fails, getStats fails with the error the fetch threw and returns no
\* report, partial or fallback; loadStats receives that error, keeps the
\* stats it had and shows the error.
C12_FetchErrorPropagates ==
    [][\A i \in 1..MaxCalls :
           (i \in DOMAIN calls /\ calls[i].pc \in {"window", "all", "types"}
                /\ calls'[i].thrown # NoError) =>
               /\ calls'[i].pc = "rejected"
               /\ calls'[i].error = calls'[i].thrown
               /\ calls'[i].error.name \in
                      {"ApiError", "UnauthorizedError", "NotFoundError", "ValidationError"}
               /\ calls'[i].result = NoReport
               /\ screen'.stats = screen.stats
               /\ screen'.error # ""
               /\ ~screen'.loading]_vars

C12_Witness ==
    \E i \in DOMAIN calls :
        /\ calls[i].pc = "rejected"
        /\ calls[i].fetched = {"window", "all"}
        /\ calls[i].entries # << >>
        /\ calls[i].error.name = "UnauthorizedError"
        /\ screen.error = "Insufficient permissions"

\* C13: no aggregation step runs before the window fetch and the all-entries
\* fetch have completed: a call resolves only with both fetched, and its
\* report is computed from the rows the two fetches returned.
C13_AggregatesAfterBothFetches ==
    [][\A i \in 1..MaxCalls :
           Resolves(i) =>
               /\ {"window", "all"} \subseteq calls[i].fetched
               /\ calls'[i].entries = calls[i].entries
               /\ calls'[i].allEntries = calls[i].allEntries
               /\ calls'[i].result.summary.totalEntries = Len(calls[i].entries)
               /\ calls'[i].result.summary.streakData.totalDaysWithEntries
                      = Cardinality(DatesOf(calls[i].allEntries))]_vars

C13_Witness ==
    \E i \in DOMAIN calls :
        /\ calls[i].pc = "resolved"
        /\ Len(calls[i].allEntries) > Len(calls[i].entries)
        /\ calls[i].entries # << >>
        /\ calls[i].allEntries # getJournalEntries(store)

\* C14: if account deletion fails (the delete_user_account RPC returns an
\* error), the user remains signed in and none of the user's data is
\* deleted, so the user can try again.
C14_FailedDeletionKeepsAll ==
    [][(account.rpc # "failed" /\ account'.rpc = "failed") =>
           /\ account'.signedIn
           /\ account'.preferences = account.preferences
           /\ account'.authUser = account.authUser
           /\ store' = store]_vars

\* The queue holds exactly one notification per (time, day) pair of prefs.
HoldsExactly(prefs) == queue = SetToBag(Range(TriggersOf(prefs)))

\* C15: rescheduling replaces, never accumulates: whenever no
\* scheduleNotifications call is in flight and the last call ran with enabled
\* preferences and granted permission, the queue holds exactly one weekly
\* notification per (time, day) pair of that call's preferences and none from
\* earlier preferences, for every interleaving of the calls of app launch and
\* settings save, also when cancelling reported an error.
C15_RescheduleReplaces ==
    (/\ sched.launch.pc = "idle"
     /\ sched.save.pc = "idle"
     /\ sched.last # NoLast
     /\ sched.last.outcome = "scheduled") => HoldsExactly(sched.last.prefs)

\* Every string of the two streak forms, with either wording of "day".
StreakTexts ==
    UNION {{"Amazing! You're on a " \o ToString(k) \o "-day streak!",
            "Keep it up! You've logged entries for " \o ToString(k) \o " day in a row.",
            "Keep it up! You've logged entries for " \o ToString(k) \o " days in a row."} :
               k \in 0..10}

\* The streak message the rule list prescribes for the counts the model draws.
ExpectedStreakMessage(n) ==
    CASE n = 1 -> "Keep it up! You've logged entries for 1 day in a row."
      [] n = 6 -> "Keep it up! You've logged entries for 6 days in a row."
      [] n = 7 -> "Amazing! You're on a 7-day streak!"
      [] n = 10 -> "Amazing! You're on a 10-day streak!"

\* C16: the streak rule for currentStreak = n: for n >= 7 exactly one streak
\* message, the long-streak one citing n; for 1 <= n <= 6 exactly one, the
\* keep-it-up one citing n with "day" for n = 1 and "days" for n > 1; for
\* n = 0 none.
C16_StreakRule ==
    Called =>
        LET n == insightsIn.summary.streakData.currentStreak
            streakMessages == SelectSeq(insights.list, LAMBDA m : m \in StreakTexts)
        IN  streakMessages = IF n = 0 THEN << >> ELSE <<ExpectedStreakMessage(n)>>

C16_Witness ==
    /\ Called
    /\ insightsIn.summary.streakData.currentStreak = 1
    /\ "Keep it up! You've logged entries for 1 day in a row." \in Range(insights.list)
    /\ Len(insights.list) > 1

\* The best-time message for each label, as the rule list words it.
BestTimeText(timeOfDay) ==
    CASE timeOfDay = "morning" -> "Your best mood scores come during Morning sessions."
      [] timeOfDay = "afternoon" -> "Your best mood scores come during Afternoon sessions."
      [] timeOfDay = "evening" -> "Your best mood scores come during Evening sessions."
      [] timeOfDay = "night" -> "Your best mood scores come during Night sessions."

BestTimeTexts == {BestTimeText(t) : t \in {"morning", "afternoon", "evening", "night"}}

\* The buckets of tp whose average is non-null and not below any other
\* non-null average: null ranks below every number.
HighestBuckets(tp) ==
    {i \in DOMAIN tp :
        /\ tp[i].averageMood.den # 0
        /\ \A j \in DOMAIN tp :
               tp[j].averageMood.den # 0 =>
                   tp[i].averageMood.num * tp[j].averageMood.den
                       >= tp[j].averageMood.num * tp[i].averageMood.den}

\* C17: the best-time rule selects the bucket with the highest averageMood
\* among the four, null ranking below every number; the message is emitted
\* exactly when some bucket has a non-null average and the selected one is at
\* least 7, and names the selected bucket; with four null averages, nothing.
C17_BestTimeRule ==
    Called =>
        LET tp == insightsIn.timePatterns
            best == HighestBuckets(tp)
            emitted == SelectSeq(insights.list, LAMBDA m : m \in BestTimeTexts)
        IN  IF \E i \in best : tp[i].averageMood.num >= 7 * tp[i].averageMood.den
            THEN /\ Len(emitted) = 1
                 /\ \E i \in best : emitted[1] = BestTimeText(tp[i].timeOfDay)
            ELSE emitted = << >>

C17_Witness ==
    /\ Called
    /\ insightsIn.timePatterns[1].averageMood = [num |-> 15, den |-> 2]
    /\ insightsIn.timePatterns[2].averageMood = NullAvg
    /\ insightsIn.timePatterns[3].averageMood = [num |-> 8, den |-> 1]
    /\ "Your best mood scores come during Evening sessions." \in Range(insights.list)

\* The top-activity messages for the names and averages the model draws.
ActivityText(name, avg) ==
    CASE name = "Training" /\ avg = [num |-> 9, den |-> 1]
             -> "Training sessions are your mood booster (avg 9.0/10)!"
      [] name = "Lift" /\ avg = [num |-> 9, den |-> 1]
             -> "Lift sessions are your mood booster (avg 9.0/10)!"
      [] name = "Training" /\ avg = [num |-> 13, den |-> 2]
             -> "Training sessions are your mood booster (avg 6.5/10)!"

ActivityTexts ==
    {ActivityText("Training", [num |-> 9, den |-> 1]),
     ActivityText("Lift", [num |-> 9, den |-> 1]),
     ActivityText("Training", [num |-> 13, den |-> 2])}

\* C18: the top-activity message is emitted exactly when the distribution is
\* non-empty and its first element has a non-null averageMood of at least 7,
\* and it names that element; later elements never cause or change it.
C18_TopActivityRule ==
    Called =>
        LET ws == insightsIn.workoutStats
            emitted == SelectSeq(insights.list, LAMBDA m : m \in ActivityTexts)
        IN  IF /\ ws # << >>
               /\ ws[1].averageMood.den # 0
               /\ ws[1].averageMood.num >= 7 * ws[1].averageMood.den
            THEN emitted = <<ActivityText(ws[1].workoutTypeName, ws[1].averageMood)>>
            ELSE emitted = << >>

C18_Witness ==
    /\ Called
    /\ Len(insightsIn.workoutStats) = 2
    /\ insightsIn.workoutStats[1].averageMood = [num |-> 13, den |-> 2]
    /\ insightsIn.workoutStats[2].averageMood = [num |-> 9, den |-> 1]
    /\ \A i \in DOMAIN insights.list : insights.list[i] \notin ActivityTexts
    /\ insights.list # <<FallbackMessage>>

\* The length of the run of consecutive days in dates that ends at day d.
RECURSIVE RunEndingAt(_, _)
RunEndingAt(dates, d) == IF d \in dates THEN 1 + RunEndingAt(dates, d - 1) ELSE 0

StreakCalled == streak # NoStreak
StreakDates == {streakIn.entries[i].entry_date : i \in DOMAIN streakIn.entries}

\* C19: currentStreak is the length of the maximal run of consecutive
\* calendar days ending at today that each have an entry: 0 exactly when
\* today has none; entries after today or before the first gap do not
\* count; several entries on one date count once.
C19_CurrentStreakIsRunToToday ==
    StreakCalled =>
        /\ streak.currentStreak = RunEndingAt(StreakDates, ToISODate(now))
        /\ (streak.currentStreak = 0) <=> (ToISODate(now) \notin StreakDates)

\* C20: longestStreak is the maximum length of a run of consecutive calendar
\* days within the distinct entry dates, for every non-empty entry list in
\* any order: one distinct date gives 1, and days 1, 2, 3 and 5 give 3.
C20_LongestStreakIsLongestRun ==
    (StreakCalled /\ streakIn.entries # << >>) =>
        /\ \E d \in StreakDates : streak.longestStreak = RunEndingAt(StreakDates, d)
        /\ \A d \in StreakDates : streak.longestStreak >= RunEndingAt(StreakDates, d)
        /\ Cardinality(StreakDates) = 1 => streak.longestStreak = 1
        /\ StreakDates = {BaseDay - 4, BaseDay - 3, BaseDay - 2, BaseDay} =>
               streak.longestStreak = 3

C20_Witness ==
    /\ StreakCalled
    /\ StreakDates = {BaseDay - 4, BaseDay - 3, BaseDay - 2, BaseDay}
    /\ streakIn.entries[1].entry_date = BaseDay - 3
    /\ zone = NewYork
    /\ streak.longestStreak = 3

\* C21: moodTrends has exactly one point per window date that has a row with
\* a mood score and none for a date whose rows all lack one; a point's
\* averageMood is the mean of that date's scores, its entryCount the number
\* of all window rows of the date, and the points ascend strictly by date.
C21_MoodTrendPoints ==
    report # NoReport =>
        LET rows == WindowOf(report)
            points == report.moodTrends
        IN  /\ \A d \in DatesOf(rows) :
                   Cardinality({i \in DOMAIN points : points[i].date = d})
                       = IF ScoredOn(rows, d) # << >> THEN 1 ELSE 0
            /\ PointDates(points) \subseteq DatesOf(rows)
            /\ \A i \in DOMAIN points :
                   LET scores == ScoredOn(rows, points[i].date)
                       total == SumSeq([k \in DOMAIN scores |-> scores[k].mood_score])
                   IN  /\ points[i].averageMood.den > 0
                       /\ points[i].averageMood.num * Len(scores)
                              = total * points[i].averageMood.den
                       /\ points[i].entryCount = Len(RowsOn(rows, points[i].date))
            /\ \A i \in DOMAIN points :
                   i > 1 => points[i - 1].date < points[i].date

C21_Witness ==
    /\ report # NoReport
    /\ Len(report.moodTrends) = 2
    /\ \E i \in DOMAIN report.moodTrends :
           report.moodTrends[i].entryCount
               > Len(ScoredOn(WindowOf(report), report.moodTrends[i].date))

\* The exact mean of the averages of a list of points, as a fraction.
RECURSIVE ExactSum(_)
ExactSum(points) ==
    IF points = << >> THEN [num |-> 0, den |-> 1]
    ELSE FracAdd(Head(points).averageMood, ExactSum(Tail(points)))

ExactMean(points) ==
    [num |-> ExactSum(points).num, den |-> ExactSum(points).den * Len(points)]

\* The direction the rule of C22 gives for the points with an average:
\* d = mean(second half) - mean(first half) as an exact number, |d| < 0.3
\* stable, d >= 0.3 improving, d <= -0.3 declining.
ExactTrend(moodTrends) ==
    LET valid == SelectSeq(moodTrends, LAMBDA t : t.averageMood # NullAvg)
        n == Len(valid)
        mid == n \div 2
        f == ExactMean(SubSeq(valid, 1, mid))
        s == ExactMean(SubSeq(valid, mid + 1, n))
        dn == s.num * f.den - f.num * s.den
        dd == s.den * f.den
    IN  IF n < 2 THEN "stable"
        ELSE IF 10 * dn >= 3 * dd THEN "improving"
        ELSE IF 10 * dn <= -3 * dd THEN "declining"
        ELSE "stable"

\* C22: calculateMoodTrend returns the direction of the exact difference d
\* of the half means of the points with an average: stable iff |d| < 0.3,
\* improving iff d >= 0.3, declining iff d <= -0.3, stable for fewer than
\* two such points.
C22_TrendIsExactRule ==
    trend # NoTrend => trend = ExactTrend(trendIn.moodTrends)

\* The same rule away from the threshold: whenever |d| is not exactly 0.3.
C22_TrendOffThreshold ==
    trend # NoTrend =>
        LET valid == SelectSeq(trendIn.moodTrends, LAMBDA t : t.averageMood # NullAvg)
            n == Len(valid)
            f == ExactMean(SubSeq(valid, 1, n \div 2))
            s == ExactMean(SubSeq(valid, n \div 2 + 1, n))
            dn == s.num * f.den - f.num * s.den
            dd == s.den * f.den
        IN  (n < 2 \/ (10 * dn # 3 * dd /\ 10 * dn # -3 * dd))
                => trend = ExactTrend(trendIn.moodTrends)

\* The scenario of C22: averages 4, 4, 8, 8 have been classified.
C22_Scenario ==
    /\ trend # NoTrend
    /\ Len(trendIn.moodTrends) = 4
    /\ \A i \in 1..4 : trendIn.moodTrends[i].averageMood = Avg(IF i <= 2 THEN 4 ELSE 8, 1)
    /\ trend = "improving"

\* Where the rows first carry the workout type id.
FirstRowOf(rows, id) ==
    CHOOSE i \in DOMAIN rows :
        rows[i].workout_type_id = id /\ \A j \in 1..(i - 1) : rows[j].workout_type_id # id

\* C23: workoutTypeDistribution has one element per distinct workout type id
\* of the window's rows, ordered by entryCount descending with equal counts
\* in the order the ids are first met; mostActiveWorkoutType is the name of
\* the first element, null for an empty distribution.
C23_DistributionOrder ==
    report # NoReport =>
        LET rows == WindowOf(report)
            dist == report.workoutTypeDistribution
        IN  /\ {TypedRows(rows)[i].workout_type_id : i \in DOMAIN TypedRows(rows)}
                   = {dist[i].workoutTypeId : i \in DOMAIN dist}
            /\ \A i, j \in DOMAIN dist :
                   i < j =>
                       /\ dist[i].workoutTypeId # dist[j].workoutTypeId
                       /\ \/ dist[i].entryCount > dist[j].entryCount
                          \/ /\ dist[i].entryCount = dist[j].entryCount
                             /\ FirstRowOf(rows, dist[i].workoutTypeId)
                                    < FirstRowOf(rows, dist[j].workoutTypeId)
            /\ \A i \in DOMAIN dist :
                   dist[i].entryCount =
                       Len(SelectSeq(rows, LAMBDA e : e.workout_type_id = dist[i].workoutTypeId))
            /\ report.summary.mostActiveWorkoutType =
                   IF dist = << >> THEN "" ELSE dist[1].workoutTypeName

\* A report whose distribution holds two types of equal count has been
\* returned, its most active type the one met first.
C23_Witness ==
    /\ report # NoReport
    /\ Len(report.workoutTypeDistribution) = 2
    /\ report.workoutTypeDistribution[1].entryCount
           = report.workoutTypeDistribution[2].entryCount
    /\ report.summary.mostActiveWorkoutType
           = report.workoutTypeDistribution[1].workoutTypeName

\* C24: the percentage of every element of workoutTypeDistribution is its
\* entryCount divided by the number of all rows of the window, with and
\* without a workout type, times 100, and so lies between 0 and 100.
C24_PercentageOfAllRows ==
    report # NoReport =>
        LET rows == WindowOf(report)
            dist == report.workoutTypeDistribution
        IN  \A i \in DOMAIN dist :
                /\ dist[i].percentage.den > 0
                /\ dist[i].percentage.num * Len(rows)
                       = dist[i].entryCount * 100 * dist[i].percentage.den
                /\ dist[i].percentage.num >= 0
                /\ dist[i].percentage.num <= 100 * dist[i].percentage.den

\* A report over a window with typed and untyped rows has been returned: the
\* only type of the window has a percentage below 100.
C24_Witness ==
    /\ report # NoReport
    /\ Len(report.workoutTypeDistribution) = 1
    /\ Len(WindowOf(report)) > report.workoutTypeDistribution[1].entryCount
    /\ report.workoutTypeDistribution[1].percentage.num
           < 100 * report.workoutTypeDistribution[1].percentage.den

\* C25: getTimeOfDay gives an entry whose time has hour h the bucket morning
\* for 5 <= h < 12, afternoon for 12 <= h < 17, evening for 17 <= h < 21 and
\* night for every other hour, gives an entry without a time afternoon, and
\* so gives every entry exactly one of the four buckets.
C25_HourBuckets ==
    bucket # NoBucket =>
        /\ \E i \in DOMAIN TimesOfDay : bucket = TimesOfDay[i]
        /\ IF timeIn.time = NoTime THEN bucket = "afternoon"
           ELSE LET h == timeIn.time[1]
                IN  /\ (5 <= h /\ h < 12) <=> bucket = "morning"
                    /\ (12 <= h /\ h < 17) <=> bucket = "afternoon"
                    /\ (17 <= h /\ h < 21) <=> bucket = "evening"
                    /\ (h < 5 \/ h >= 21) <=> bucket = "night"

\* An entry timed 21:30 has been classified, as night.
C25_Witness ==
    /\ bucket = "night"
    /\ timeIn.time = <<21, 30>>

\* C26: in every report getStats returns, also when rows are created or
\* deleted between its fetches, the window rows are exactly the all-time rows
\* dated in [startDate, endDate], and a currentStreak of 1 or more comes with
\* a totalEntries of 1 or more.
C26_ReportOfOneSnapshot ==
    \A i \in DOMAIN calls :
        calls[i].pc = "resolved" =>
            /\ calls[i].entries
                   = getEntriesByDateRange(calls[i].allEntries,
                                           calls[i].startDate, calls[i].endDate)
            /\ calls[i].result.summary.streakData.currentStreak >= 1
                   => calls[i].result.summary.totalEntries >= 1

\* The getStats request for the period selected is in flight.
SelectedInFlight ==
    \E i \in DOMAIN calls :
        calls[i].pc \in {"window", "all", "types"} /\ calls[i].period = screen.period

\* C27: whenever StatsScreen is not loading and shows a report, the report's
\* summary.period is the period selected, and loading never becomes false
\* while the request for the period selected is in flight.
C27_ShownReportIsOfSelectedPeriod ==
    [][/\ View(screen') = "report" => screen'.stats.summary.period = screen'.period
       /\ (screen.loading /\ ~screen'.loading) => ~SelectedInFlight']_vars

\* The second half of C27 alone.
C27_LoadingCoversRequest ==
    [][(screen.loading /\ ~screen'.loading) => ~SelectedInFlight']_vars

\* Requests never overlap: the selector that starts one is rendered only
\* while none is in flight.
C27_OneRequestAtATime ==
    /\ Len(InFlight(calls)) <= 1
    /\ InFlight(calls) # << >> => View(screen) = "spinner"

\* Once the effect of the last period change has run, a shown report is of
\* the period selected.
C27_ShownAfterEffect ==
    (View(screen) = "report" /\ EffectDone(screen))
        => screen.stats.summary.period = screen.period

\* C28: getProfileStatsSummary and getStats report the same
\* mostActiveWorkoutType when they aggregate the same rows with the same
\* catalog, with tied counts and with a most frequent id the catalog does
\* not name.
C28_SameMostActiveType ==
    (report # NoReport /\ profile # NoProfile) =>
        profile.mostActiveWorkoutType = report.summary.mostActiveWorkoutType

\* The two agree whenever the catalog names the most frequent id, tied
\* counts included.
C28_SameWhenNamed ==
    (report # NoReport /\ profile # NoProfile
         /\ report.summary.mostActiveWorkoutType # "Unknown") =>
        profile.mostActiveWorkoutType = report.summary.mostActiveWorkoutType

\* Both have reported on rows whose two types tie.
C28_TieReported ==
    /\ report # NoReport
    /\ profile # NoProfile
    /\ Len(report.workoutTypeDistribution) = 2
    /\ report.workoutTypeDistribution[1].entryCount
           = report.workoutTypeDistribution[2].entryCount
    /\ profile.mostActiveWorkoutType = "Lift"

\* A best-time message is among the insights of the report.
HasBestTimeInsight(r) ==
    \E i \in DOMAIN r.insights : r.insights[i] \in BestTimeTexts

\* C29: in every report over mood scores from 1 to 10, a summary.averageMood
\* of 7 or more comes with the best-time insight, so the excellent-mood
\* insight never appears without the best-time insight.
C29_HighAverageNamesBestTime ==
    report # NoReport =>
        /\ (report.summary.averageMood.den # 0 /\ AtLeast(report.summary.averageMood, 7))
               => HasBestTimeInsight(report)
        /\ (\E i \in DOMAIN report.insights :
                report.insights[i] = "You're maintaining excellent mood scores!")
               => HasBestTimeInsight(report)

\* A report whose average is between 7 and 8, over buckets of which one has
\* an average below 7, has been returned with the best-time insight.
C29_Witness ==
    /\ report # NoReport
    /\ report.summary.averageMood.den # 0
    /\ AtLeast(report.summary.averageMood, 7)
    /\ ~AtLeast(report.summary.averageMood, 8)
    /\ \E i \in DOMAIN report.timePatterns :
           /\ report.timePatterns[i].averageMood.den # 0
           /\ ~AtLeast(report.timePatterns[i].averageMood, 7)
    /\ HasBestTimeInsight(report)

RECURSIVE SumEntryCounts(_)
SumEntryCounts(stats) ==
    IF stats = << >> THEN 0
    ELSE Head(stats).entryCount + SumEntryCounts(Tail(stats))

\* C30: in every report the entryCounts of the four timePatterns sum to
\* summary.totalEntries, the entryCounts of workoutTypeDistribution sum to the
\* number of window rows with a workout type, and the entryCounts of
\* moodTrends sum to at most summary.totalEntries.
C30_EntryCountsConserved ==
    report # NoReport =>
        /\ Len(report.timePatterns) = 4
        /\ SumEntryCounts(report.timePatterns) = report.summary.totalEntries
        /\ SumEntryCounts(report.workoutTypeDistribution)
               = Len(TypedRows(WindowOf(report)))
        /\ SumEntryCounts(report.moodTrends) <= report.summary.totalEntries
        /\ report.summary.totalEntries = Len(WindowOf(report))

\* A report has been returned over rows of which one has no workout type and
\* one, alone on its date, has no mood score: the three sums differ.
C30_Witness ==
    /\ report # NoReport
    /\ SumEntryCounts(report.workoutTypeDistribution) > 0
    /\ SumEntryCounts(report.workoutTypeDistribution) < report.summary.totalEntries
    /\ SumEntryCounts(report.moodTrends) > 0
    /\ SumEntryCounts(report.moodTrends) < report.summary.totalEntries

=============================================================================
